---- MODULE Spec2Model ----
(***************************************************************************)
(* Model of the auth-service credential and session lifecycle: the signup, *)
(* login, verify-2fa, logout and verify-token handlers over the credential *)
(* store, the second-factor code store and the banned-token store.         *)
(*                                                                         *)
(* Strings that the code inspects (emails, passwords, codes) are sequences *)
(* of one-character strings.  In Spec, FaultSpec and StoreSpec a handler   *)
(* is one atomic action (one request at a time); in ConcSpec and LiveSpec  *)
(* the handlers run as concurrent tasks, one step per await, under the     *)
(* locks of AppState; DomainSpec applies the pure functions of the domain  *)
(* types to drawn inputs.                                                  *)
(***************************************************************************)
EXTENDS Integers, Sequences, FiniteSets

VARIABLES
    userBackend,    \* which UserStore implementation is wired in: "hashmap" | "postgres"
    twoFaBackend,   \* which TwoFACodeStore implementation is wired in: "hashmap" | "redis"
    bannedBackend,  \* which BannedTokenStore implementation is wired in: "hashset" | "redis"
    users,          \* credential store: email -> account record or NoUser
    codes,          \* second-factor code store: email -> pending entry or NoCode
    banned,         \* banned-token store: set of entries (token string, expiry)
    jar,            \* the client's cookie jar: value of the jwt cookie or NoCookie
    now,            \* wall clock, seconds
    nextId,         \* number of the next login attempt id (uuid v4 is modelled as fresh)
    issued,         \* ghost: every session token the service has issued
    attempts,       \* ghost: email -> sequence of the (id, code) pairs issued by login,
                    \*        each with the time of its add_code
    loggedOut,      \* ghost: tokens for which a logout request returned 200
    signupPassword, \* ghost: email -> the raw password its account was created with
    seq,            \* number of requests handled so far
    resp,           \* the last request together with its response
    tasks           \* the requests in flight when handlers run concurrently:
                    \* task -> its request, its position in the handler, the
                    \* store locks it holds

vars == <<userBackend, twoFaBackend, bannedBackend, users, codes, banned, jar, now, nextId,
          issued, attempts, loggedOut, signupPassword, seq, resp, tasks>>

(***************************************************************************)
(* Bounds of the model.                                                    *)
(***************************************************************************)
MaxTime == 945
MaxLogins == 2
MaxRequests == 4
MaxFaultRequests == 3

(***************************************************************************)
(* Program constants.                                                      *)
(***************************************************************************)
TOKEN_TTL_SECONDS == 600
TEN_MINUTES_IN_SECONDS == 600
JWT_LEEWAY == 60
MIN_PASSWORD_LEN == 8
TWO_FA_CODE_MIN == 100000
TWO_FA_CODE_MAX == 999999
U32_MAX_DIGITS == <<"4", "2", "9", "4", "9", "6", "7", "2", "9", "5">>
TEN_DIGITS == 1000000000
\* the clock is observed at steps that fall inside the windows between the
\* store TTLs and the end of the token's leeway
TickStep == (TOKEN_TTL_SECONDS + JWT_LEEWAY \div 2) \div 2

(***************************************************************************)
(* Input alphabets.                                                        *)
(***************************************************************************)
EMAIL_A == <<"a", "@", "x">>
EMAIL_B == <<"b", "@", "x">>
EMAIL_EMPTY == <<>>
EMAIL_NO_AT == <<"a", "x">>
EmailInputs == {EMAIL_A, EMAIL_B, EMAIL_EMPTY, EMAIL_NO_AT}

PW_1 == <<"p", "a", "s", "s", "w", "o", "r", "d">>
PW_2 == <<"P", "4", "s", "s", "w", "0", "r", "d", "!">>
PW_SHORT == <<"s", "h", "o", "r", "t", "p", "w">>
\* four characters of two bytes each in UTF-8 (U+00E9, e with acute accent)
PW_WIDE == <<"U+00E9", "U+00E9", "U+00E9", "U+00E9">>
PasswordInputs == {PW_1, PW_2, PW_SHORT, PW_WIDE}

Salts == {"s1"}
GenNumbers == {100000, 999999}

NoUser == [none |-> "user"]
NoCode == [none |-> "code"]
NoCookie == [sub |-> <<>>, exp |-> 0, sig |-> "none"]
NoId == [n |-> 0, form |-> "none"]

Digits == <<"0", "1", "2", "3", "4", "5", "6", "7", "8", "9">>

(***************************************************************************)
(* Strings.                                                                *)
(***************************************************************************)
Contains(s, ch) == \E i \in 1..Len(s) : s[i] = ch

\* The characters of the inputs that are not ASCII, and the number of bytes
\* of a character in UTF-8
TwoByteChars == {"U+00E9"}

Utf8Len(ch) == IF ch \in TwoByteChars THEN 2 ELSE 1

\* str::len: the length of the string in bytes
RECURSIVE ByteLen(_)
ByteLen(s) == IF s = <<>> THEN 0 ELSE Utf8Len(s[1]) + ByteLen(Tail(s))

IsDigit(ch) == \E d \in 1..10 : Digits[d] = ch

DigitValue(ch) == (CHOOSE d \in 1..10 : Digits[d] = ch) - 1

RECURSIVE DigitsValue(_)
DigitsValue(s) ==
    IF s = <<>> THEN 0
    ELSE 10 * DigitsValue(SubSeq(s, 1, Len(s) - 1)) + DigitValue(s[Len(s)])

\* i64::to_string of a non-negative number
RECURSIVE DecimalString(_)
DecimalString(n) ==
    IF n < 10 THEN <<Digits[n + 1]>>
    ELSE Append(DecimalString(n \div 10), Digits[(n % 10) + 1])

RECURSIVE StripZeros(_)
StripZeros(s) == IF s # <<>> /\ s[1] = "0" THEN StripZeros(Tail(s)) ELSE s

\* a <= b for digit strings of the same length
RECURSIVE DigitsLeq(_, _)
DigitsLeq(a, b) ==
    IF a = <<>> THEN TRUE
    ELSE IF DigitValue(a[1]) # DigitValue(b[1]) THEN DigitValue(a[1]) < DigitValue(b[1])
    ELSE DigitsLeq(Tail(a), Tail(b))

\* str::parse::<u32>: an optional '+', then one or more ASCII digits, value at
\* most u32::MAX.  A value of ten digits is reported as TEN_DIGITS (the exact
\* value is beyond the integers of the checker; only its size is used).
ParseU32(s) ==
    LET body == IF s # <<>> /\ s[1] = "+" THEN Tail(s) ELSE s
        sig == StripZeros(body)
    IN  IF body # <<>> /\ (\A i \in 1..Len(body) : IsDigit(body[i]))
           /\ (Len(sig) < 10 \/ (Len(sig) = 10 /\ DigitsLeq(sig, U32_MAX_DIGITS)))
        THEN [ok |-> TRUE, value |-> IF Len(sig) < 10 THEN DigitsValue(sig) ELSE TEN_DIGITS]
        ELSE [ok |-> FALSE, value |-> 0]

(***************************************************************************)
(* Domain types: Email, Password, LoginAttemptId, TwoFACode.               *)
(***************************************************************************)
Email_parse(email) == email # <<>> /\ Contains(email, "@")

validate_password(s) == ByteLen(s) >= MIN_PASSWORD_LEN

\* a parse that accepts every password
Password_parse_any(s) == TRUE

Password_parse(s) == validate_password(s)

ValidEmails == {e \in EmailInputs : Email_parse(e)}

\* A login attempt id is the text of a uuid: the uuid's number and the form it
\* is written in.  "lower" is the hyphenated lower-case form Uuid::to_string yields.
UuidForms == {"lower", "upper"}
NotUuid == [n |-> 0, form |-> "invalid"]

\* LoginAttemptId::parse: Uuid::parse_str, then the canonical text of the uuid
LoginAttemptId_parse(id) ==
    IF id.form \in UuidForms
    THEN [ok |-> TRUE, value |-> [n |-> id.n, form |-> "lower"]]
    ELSE [ok |-> FALSE, value |-> NotUuid]

\* LoginAttemptId::default: a fresh uuid v4 in canonical text
LoginAttemptId_default(k) == [n |-> k, form |-> "lower"]

\* TwoFACode::parse: the string as given, when it parses to a u32 in range
TwoFACode_parse(code) ==
    LET r == ParseU32(code)
    IN  IF r.ok /\ r.value >= TWO_FA_CODE_MIN /\ r.value <= TWO_FA_CODE_MAX
        THEN [ok |-> TRUE, value |-> code]
        ELSE [ok |-> FALSE, value |-> <<>>]

\* TwoFACode::default: the decimal text of a number drawn from 100000..=999999
TwoFACode_default(n) == DecimalString(n)

(***************************************************************************)
(* AuthAPIError and its rendering as an HTTP status.                       *)
(***************************************************************************)
StatusOf(err) ==
    CASE err = "UserAlreadyExists" -> 409
      [] err = "InvalidCredentials" -> 400
      [] err = "IncorrectCredentials" -> 401
      [] err = "UnexpectedError" -> 500
      [] err = "MissingToken" -> 400
      [] err = "InvalidToken" -> 401

ErrorMessage(err) ==
    CASE err = "UserAlreadyExists" -> "User already exists"
      [] err = "InvalidCredentials" -> "Invalid credentials"
      [] err = "IncorrectCredentials" -> "Incorrect credentials"
      [] err = "UnexpectedError" -> "Unexpected error"
      [] err = "MissingToken" -> "Missing token"
      [] err = "InvalidToken" -> "Invalid token"

\* enum UserStoreError
UserStoreErrors == {"UserAlreadyExists", "UserNotFound", "InvalidCredentials", "UnexpectedError"}

\* impl From<UserStoreError> for AuthAPIError
AuthAPIError_from(error) ==
    CASE error = "UserNotFound" -> "IncorrectCredentials"
      [] error = "InvalidCredentials" -> "InvalidCredentials"
      [] error = "UserAlreadyExists" -> "UserAlreadyExists"
      [] error = "UnexpectedError" -> "UnexpectedError"

(***************************************************************************)
(* Password hashing (postgres_user_store.rs).  A hash is the PHC string of *)
(* Argon2id, "$argon2id$...$salt$digest": the algorithm tag, the salt, a    *)
(* separator and the digest of (salt, password); the digest is modelled as *)
(* the salt followed by the password (no collisions).                      *)
(***************************************************************************)
PHC_ARGON2ID == "$argon2id$"
PHC_SEPARATOR == "$"

Argon2Digest(password, salt) == <<salt>> \o password

\* Argon2::hash_password(...).to_string()
Argon2Hash(password, salt) ==
    <<PHC_ARGON2ID, salt, PHC_SEPARATOR>> \o Argon2Digest(password, salt)

\* PasswordHash::new: the string parses as a PHC string or it does not
PasswordHash_new(s) ==
    IF Len(s) >= 3 /\ s[1] = PHC_ARGON2ID /\ s[3] = PHC_SEPARATOR
    THEN [ok |-> TRUE, salt |-> s[2], digest |-> SubSeq(s, 4, Len(s))]
    ELSE [ok |-> FALSE, salt |-> "", digest |-> <<>>]

\* compute_password_hash: hashes the password, then returns Err(eyre!("oh no!"))
compute_password_hash(password, salt) ==
    LET password_hash == Argon2Hash(password, salt)
    IN  [ok |-> FALSE, value |-> <<"oh no!">>]

\* verify_password_hash: PasswordHash::new, then Argon2::verify_password; Ok(())
\* only when the stored string parses and the candidate's digest equals its digest
verify_password_hash(expected_password_hash, password_candidate) ==
    LET parsed == PasswordHash_new(expected_password_hash)
    IN  /\ parsed.ok
        /\ Argon2Digest(password_candidate, parsed.salt) = parsed.digest

(***************************************************************************)
(* Outcome of the I/O of a request.  A handler is given the name of the    *)
(* operation whose connection (database, Redis, mail API) fails while it   *)
(* runs, or IO_OK.  The in-memory stores and the mock email client do no   *)
(* I/O and cannot fail.                                                    *)
(***************************************************************************)
IO_OK == "ok"

LoginIo == {IO_OK, "user_store.validate_user", "user_store.get_user",
            "two_fa_code_store.add_code", "email_client.send_email"}
Verify2FAIo == {IO_OK, "two_fa_code_store.get_code", "generate_auth_cookie",
                "two_fa_code_store.remove_code"}
LogoutIo == {IO_OK, "banned_token_store.contains_token", "banned_token_store.add_token"}
VerifyTokenIo == {IO_OK, "banned_token_store.contains_token"}

\* the error a store operation returns when its I/O fails: RedisTwoFACodeStore's
\* get_code reports a failed GET as LoginAttemptIdNotFound, every other
\* operation reports UnexpectedError
IoError(op) ==
    IF op = "two_fa_code_store.get_code" THEN "LoginAttemptIdNotFound"
    ELSE "UnexpectedError"

(***************************************************************************)
(* Credential store: HashmapUserStore and PostgresUserStore.               *)
(***************************************************************************)
User_new(email, password, requires_2fa) ==
    [email |-> email, password |-> password, requires_2fa |-> requires_2fa]

HashmapUserStore_add_user(us, user) ==
    IF us[user.email] # NoUser
    THEN [res |-> "UserAlreadyExists", store |-> us]
    ELSE [res |-> "Ok", store |-> [us EXCEPT ![user.email] = user]]

\* a lookup that never finds the account
HashmapUserStore_get_user_missing(us, email) == [res |-> "UserNotFound", user |-> NoUser]

HashmapUserStore_get_user(us, email) ==
    IF us[email] # NoUser
    THEN [res |-> "Ok", user |-> us[email]]
    ELSE [res |-> "UserNotFound", user |-> NoUser]

\* a check that accepts any password for an identity that has an account
HashmapUserStore_validate_user_any(us, email, password) ==
    IF us[email] # NoUser THEN "Ok" ELSE "UserNotFound"

HashmapUserStore_validate_user(us, email, password) ==
    IF us[email] # NoUser
    THEN IF us[email].password = password THEN "Ok" ELSE "InvalidCredentials"
    ELSE "UserNotFound"

\* INSERT INTO users: the hash is computed first; a failed hash or a failed
\* insert (the email column is the key of the table) is UnexpectedError
PostgresUserStore_add_user(us, user, salt) ==
    LET password_hash == compute_password_hash(user.password, salt)
    IN  IF ~password_hash.ok
        THEN [res |-> "UnexpectedError", store |-> us]
        ELSE IF us[user.email] # NoUser
        THEN [res |-> "UnexpectedError", store |-> us]
        ELSE [res |-> "Ok",
              store |-> [us EXCEPT ![user.email] =
                            User_new(user.email, password_hash.value, user.requires_2fa)]]

\* SELECT ... WHERE email = $1; the row's password_hash becomes User.password
PostgresUserStore_get_user(us, email) ==
    IF us[email] # NoUser
    THEN IF Email_parse(us[email].email) /\ Password_parse(us[email].password)
         THEN [res |-> "Ok", user |-> us[email]]
         ELSE [res |-> "UnexpectedError", user |-> NoUser]
    ELSE [res |-> "UserNotFound", user |-> NoUser]

PostgresUserStore_validate_user(us, email, password) ==
    IF us[email] = NoUser THEN "UserNotFound"
    ELSE IF verify_password_hash(us[email].password, password) THEN "Ok"
    ELSE "InvalidCredentials"

UserStore_add_user(backend, us, user, salt) ==
    IF backend = "hashmap" THEN HashmapUserStore_add_user(us, user)
    ELSE PostgresUserStore_add_user(us, user, salt)

UserStore_get_user(backend, us, email) ==
    IF backend = "hashmap" THEN HashmapUserStore_get_user(us, email)
    ELSE PostgresUserStore_get_user(us, email)

UserStore_validate_user(backend, us, email, password) ==
    IF backend = "hashmap" THEN HashmapUserStore_validate_user(us, email, password)
    ELSE PostgresUserStore_validate_user(us, email, password)

(***************************************************************************)
(* Second-factor code store: HashmapTwoFACodeStore and RedisTwoFACodeStore.*)
(* An entry carries the time its key expires; NoExpiry for the hash map.   *)
(***************************************************************************)
NoExpiry == -1

HashmapTwoFACodeStore_add_code(cs, email, login_attempt_id, code) ==
    [res |-> "Ok",
     store |-> [cs EXCEPT ![email] =
                   [id |-> login_attempt_id, code |-> code, expires |-> NoExpiry]]]

HashmapTwoFACodeStore_remove_code(cs, email) ==
    [res |-> "Ok", store |-> [cs EXCEPT ![email] = NoCode]]

HashmapTwoFACodeStore_get_code(cs, email) ==
    IF cs[email] # NoCode
    THEN [res |-> "Ok", id |-> cs[email].id, code |-> cs[email].code]
    ELSE [res |-> "LoginAttemptIdNotFound", id |-> NoId, code |-> <<>>]

\* SET key value EX 600
RedisTwoFACodeStore_add_code(cs, email, login_attempt_id, code, t) ==
    [res |-> "Ok",
     store |-> [cs EXCEPT ![email] =
                   [id |-> login_attempt_id, code |-> code,
                    expires |-> t + TEN_MINUTES_IN_SECONDS]]]

\* DEL key
RedisTwoFACodeStore_remove_code(cs, email) ==
    [res |-> "Ok", store |-> [cs EXCEPT ![email] = NoCode]]

\* a GET that still finds a key whose time to live has run out
RedisTwoFACodeStore_get_code_no_ttl(cs, email, t) ==
    IF cs[email] # NoCode
    THEN [res |-> "Ok", id |-> cs[email].id, code |-> cs[email].code]
    ELSE [res |-> "LoginAttemptIdNotFound", id |-> NoId, code |-> <<>>]

\* GET key: a key past its expiry is gone; the stored strings are parsed back
RedisTwoFACodeStore_get_code(cs, email, t) ==
    IF cs[email] # NoCode /\ t < cs[email].expires
    THEN LET login_attempt_id == LoginAttemptId_parse(cs[email].id)
             email_code == TwoFACode_parse(cs[email].code)
         IN  IF login_attempt_id.ok /\ email_code.ok
             THEN [res |-> "Ok", id |-> login_attempt_id.value, code |-> email_code.value]
             ELSE [res |-> "UnexpectedError", id |-> NoId, code |-> <<>>]
    ELSE [res |-> "LoginAttemptIdNotFound", id |-> NoId, code |-> <<>>]

\* a store that keeps the pending entry of an identity instead of replacing it
TwoFACodeStore_add_code_keep_first(backend, cs, email, login_attempt_id, code, t) ==
    IF cs[email] # NoCode
    THEN [res |-> "Ok", store |-> cs]
    ELSE [res |-> "Ok",
          store |-> [cs EXCEPT ![email] =
                        [id |-> login_attempt_id, code |-> code,
                         expires |-> IF backend = "hashmap" THEN NoExpiry
                                     ELSE t + TEN_MINUTES_IN_SECONDS]]]

TwoFACodeStore_add_code(backend, cs, email, login_attempt_id, code, t) ==
    IF backend = "hashmap"
    THEN HashmapTwoFACodeStore_add_code(cs, email, login_attempt_id, code)
    ELSE RedisTwoFACodeStore_add_code(cs, email, login_attempt_id, code, t)

\* a store whose remove leaves the entry in place
TwoFACodeStore_remove_code_kept(backend, cs, email) == [res |-> "Ok", store |-> cs]

TwoFACodeStore_remove_code(backend, cs, email) ==
    IF backend = "hashmap" THEN HashmapTwoFACodeStore_remove_code(cs, email)
    ELSE RedisTwoFACodeStore_remove_code(cs, email)

\* a lookup that returns a pending entry whatever identity it is stored for
TwoFACodeStore_get_code_any_identity(backend, cs, email, t) ==
    IF \E e \in DOMAIN cs : cs[e] # NoCode
    THEN LET e == CHOOSE e \in DOMAIN cs : cs[e] # NoCode
         IN  [res |-> "Ok", id |-> cs[e].id, code |-> cs[e].code]
    ELSE [res |-> "LoginAttemptIdNotFound", id |-> NoId, code |-> <<>>]

TwoFACodeStore_get_code(backend, cs, email, t) ==
    IF backend = "hashmap" THEN HashmapTwoFACodeStore_get_code(cs, email)
    ELSE RedisTwoFACodeStore_get_code(cs, email, t)

(***************************************************************************)
(* Banned-token store: HashsetBannedTokenStore, and RedisBannedTokenStore   *)
(* whose entries live for the token TTL.  An entry carries the time its key *)
(* expires; NoExpiry for the hash set.                                      *)
(***************************************************************************)
\* a store that drops the token it is asked to ban
HashsetBannedTokenStore_add_token_dropped(bs, token) == bs

HashsetBannedTokenStore_add_token(bs, token) ==
    bs \cup {[token |-> token, expires |-> NoExpiry]}

\* a lookup that never finds a token
HashsetBannedTokenStore_contains_token_never(bs, token) == FALSE

HashsetBannedTokenStore_contains_token(bs, token) ==
    [token |-> token, expires |-> NoExpiry] \in bs

\* the entry of a token replaces the one it had; it lives for the token TTL
RedisBannedTokenStore_add_token(bs, token, t) ==
    {b \in bs : b.token # token}
        \cup {[token |-> token, expires |-> t + TOKEN_TTL_SECONDS]}

\* an entry past its expiry is gone
RedisBannedTokenStore_contains_token(bs, token, t) ==
    \E b \in bs : b.token = token /\ t < b.expires

BannedTokenStore_add_token(backend, bs, token, t) ==
    IF backend = "hashset" THEN HashsetBannedTokenStore_add_token(bs, token)
    ELSE RedisBannedTokenStore_add_token(bs, token, t)

\* a lookup that finds every token once some token is banned
BannedTokenStore_contains_token_any(backend, bs, token, t) == bs # {}

BannedTokenStore_contains_token(backend, bs, token, t) ==
    IF backend = "hashset" THEN HashsetBannedTokenStore_contains_token(bs, token)
    ELSE RedisBannedTokenStore_contains_token(bs, token, t)

(***************************************************************************)
(* Session tokens (utils/auth.rs).  A token is the signed encoding of its  *)
(* claims: equal claims give the same token string.                        *)
(***************************************************************************)
create_token(claims) == [sub |-> claims.sub, exp |-> claims.exp, sig |-> "HS256"]

generate_auth_token(email, t) ==
    create_token([sub |-> email, exp |-> t + TOKEN_TTL_SECONDS])

\* jsonwebtoken::decode with Validation::default(): signature, then exp with leeway
decode(token, t) ==
    IF token.sig # "HS256" THEN "InvalidToken"
    ELSE IF token.exp < t - JWT_LEEWAY THEN "ExpiredSignature"
    ELSE "Ok"

\* a validation that decodes the token before it asks the store
validate_token_decode_first(token, backend, bs, t, io) ==
    IF decode(token, t) # "Ok"
    THEN [res |-> "failed to decode token", sub |-> <<>>, exp |-> 0]
    ELSE IF io = "banned_token_store.contains_token"
    THEN [res |-> IoError(io), sub |-> <<>>, exp |-> 0]
    ELSE IF BannedTokenStore_contains_token(backend, bs, token, t)
    THEN [res |-> "token is banned", sub |-> <<>>, exp |-> 0]
    ELSE [res |-> "Ok", sub |-> token.sub, exp |-> token.exp]

validate_token(token, backend, bs, t, io) ==
    IF io = "banned_token_store.contains_token"
    THEN [res |-> IoError(io), sub |-> <<>>, exp |-> 0]
    ELSE IF BannedTokenStore_contains_token(backend, bs, token, t)
    THEN [res |-> "token is banned", sub |-> <<>>, exp |-> 0]
    ELSE IF decode(token, t) = "Ok"
    THEN [res |-> "Ok", sub |-> token.sub, exp |-> token.exp]
    ELSE [res |-> "failed to decode token", sub |-> <<>>, exp |-> 0]

\* Token strings that carry no valid signature of this service
INVALID_TOKEN == [sub |-> <<>>, exp |-> 0, sig |-> "malformed"]
FORGED_TOKEN == [sub |-> EMAIL_A, exp |-> MaxTime + TOKEN_TTL_SECONDS, sig |-> "forged"]

(***************************************************************************)
(* Requests and responses.  resp holds the last request (op and inputs)    *)
(* with what the handler returned: status, error, the fields of the JSON   *)
(* body, the cookies it set, and (ghost) the store operations it invoked,  *)
(* the store's error behind the response (cause), the I/O outcome the     *)
(* request met (io) and, for verify-token, the time of the validation (at).*)
(***************************************************************************)
NoResp ==
    [op |-> "none", email |-> <<>>, password |-> <<>>,
     id |-> NoId, code |-> <<>>, token |-> NoCookie,
     status |-> 0, error |-> "Ok", body |-> [empty |-> TRUE],
     setJwt |-> NoCookie, removedJwt |-> FALSE, setLoginAttemptCookie |-> <<>>,
     accessed |-> {}, cause |-> "Ok", io |-> IO_OK, at |-> 0]

\* impl IntoResponse for AuthAPIError
IntoResponse(r, err) ==
    [r EXCEPT !.status = StatusOf(err), !.error = err,
              !.body = [error |-> ErrorMessage(err)]]

LOGIN_ATTEMPT_COOKIE_VALUE == <<"1", "2", "3", "4", "5", "6">>

(***************************************************************************)
(* Tasks.  Each request is handled by a task of the runtime; a task is at  *)
(* a position of its handler (pc), holds the guards of the RwLocks of      *)
(* AppState it has acquired and not yet dropped (held: pairs of the lock's *)
(* name and "read" or "write"), and carries its request and response (r),  *)
(* the account it fetched (user) and the (id, code) pair it generated or   *)
(* fetched (pair).  Ghost: the number of its request (n) and the numbers   *)
(* of the requests that were in flight when it was accepted (with), and   *)
(* the identities that had an account at that moment (registered).         *)
(***************************************************************************)
Procs == {1, 2}

IdleTask ==
    [pc |-> "idle", held |-> {}, r |-> NoResp, user |-> NoUser, pair |-> NoCode,
     n |-> 0, with |-> {}, registered |-> {}]

(***************************************************************************)
(* POST /signup (routes/signup.rs)                                         *)
(***************************************************************************)
\* lines 19-25: the email is empty or has no '@', or the password is short
signup_invalid_input(email, password) ==
    \/ email = <<>> \/ ~Contains(email, "@")
    \/ ByteLen(password) < MIN_PASSWORD_LEN

\* a signup that inserts the record without looking for an existing account
Signup_overwriting(email, password, requires_2fa, salt) ==
    LET r == [NoResp EXCEPT !.op = "signup", !.email = email, !.password = password]
    IN  /\ seq < MaxRequests
        /\ seq' = seq + 1
        /\ UNCHANGED <<tasks, userBackend, twoFaBackend, bannedBackend, codes, banned, jar, now, nextId,
                       issued, attempts, loggedOut>>
        /\ IF signup_invalid_input(email, password)
           THEN /\ resp' = IntoResponse(r, "InvalidCredentials")
                /\ UNCHANGED <<users, signupPassword>>
           ELSE /\ resp' = [r EXCEPT !.status = 201,
                                     !.body = [message |-> "User created successfully!"],
                                     !.accessed = {"user_store.add_user"}]
                /\ users' = [users EXCEPT ![email] =
                                IF userBackend = "hashmap"
                                THEN User_new(email, password, requires_2fa)
                                ELSE User_new(email, Argon2Hash(password, salt), requires_2fa)]
                /\ signupPassword' = [signupPassword EXCEPT ![email] = password]

Signup(email, password, requires_2fa, salt) ==
    LET r == [NoResp EXCEPT !.op = "signup", !.email = email, !.password = password]
    IN  /\ seq < MaxRequests
        /\ seq' = seq + 1
        /\ UNCHANGED <<tasks, userBackend, twoFaBackend, bannedBackend, codes, banned, jar, now, nextId,
                       issued, attempts, loggedOut>>
        /\ IF signup_invalid_input(email, password)
           THEN /\ resp' = IntoResponse(r, "InvalidCredentials")
                /\ UNCHANGED <<users, signupPassword>>
           ELSE LET user == User_new(email, password, requires_2fa)
                    found == UserStore_get_user(userBackend, users, email)
                    added == UserStore_add_user(userBackend, users, user, salt)
                IN  IF found.res = "Ok"
                    THEN /\ resp' = [IntoResponse(r, "UserAlreadyExists")
                                       EXCEPT !.accessed = {"user_store.get_user"}]
                         /\ UNCHANGED <<users, signupPassword>>
                    ELSE IF added.res # "Ok"
                    THEN /\ resp' = [IntoResponse(r, "UnexpectedError")
                                       EXCEPT !.accessed = {"user_store.get_user",
                                                            "user_store.add_user"},
                                              !.cause = added.res]
                         /\ users' = added.store
                         /\ UNCHANGED signupPassword
                    ELSE /\ resp' = [r EXCEPT !.status = 201,
                                              !.body = [message |-> "User created successfully!"],
                                              !.accessed = {"user_store.get_user",
                                                            "user_store.add_user"}]
                         /\ users' = added.store
                         /\ signupPassword' = [signupPassword EXCEPT ![email] = password]

(***************************************************************************)
(* POST /login (routes/login.rs)                                           *)
(***************************************************************************)
\* a login that converts the store's error with From<UserStoreError>
login_store_error_converted(store_error) ==
    CASE store_error = "UserNotFound" -> "IncorrectCredentials"
      [] store_error = "InvalidCredentials" -> "InvalidCredentials"
      [] store_error = "UserAlreadyExists" -> "UserAlreadyExists"
      [] OTHER -> "UnexpectedError"

\* lines 34-36 and 38-41: whatever the store's error, IncorrectCredentials
login_store_error(store_error) == "IncorrectCredentials"

\* a 206 body that carries the hard-coded attempt id of the handler's comment
TwoFactorAuthResponse_hard_coded(login_attempt_id, two_fa_code) ==
    [message |-> "2FA required", loginAttemptId |-> LoginAttemptId_default(0)]

\* handle_2fa, the body of the 206 response
TwoFactorAuthResponse(login_attempt_id, two_fa_code) ==
    [message |-> "2FA required", loginAttemptId |-> login_attempt_id]

\* a second-factor branch that answers like handle_no_2fa: the session cookie
\* at once
handle_2fa_issuing(r, email, number, io) ==
    LET token == generate_auth_token(email, now)
    IN  /\ jar' = token
        /\ issued' = issued \cup {token}
        /\ resp' = [r EXCEPT !.status = 200, !.setJwt = token,
                             !.body = [regular |-> TRUE],
                             !.accessed = {"user_store.validate_user",
                                           "user_store.get_user"}]
        /\ UNCHANGED <<codes, nextId, attempts>>

handle_2fa(r, email, number, io) ==
    LET login_attempt_id == LoginAttemptId_default(nextId)
        two_fa_code == TwoFACode_default(number)
        stored == TwoFACodeStore_add_code(twoFaBackend, codes, email,
                                          login_attempt_id, two_fa_code, now)
    IN  /\ nextId <= MaxLogins
        /\ nextId' = nextId + 1
        /\ UNCHANGED <<jar, issued>>
        /\ IF io = "two_fa_code_store.add_code"
           THEN \* lines 93-95
                /\ resp' = [IntoResponse(r, "UnexpectedError")
                              EXCEPT !.accessed = {"user_store.validate_user",
                                                   "user_store.get_user",
                                                   "two_fa_code_store.add_code"},
                                     !.cause = IoError(io)]
                /\ UNCHANGED <<codes, attempts>>
           ELSE /\ attempts' = [attempts EXCEPT ![email] =
                                   Append(@, [id |-> login_attempt_id, code |-> two_fa_code,
                                              at |-> now])]
                /\ codes' = stored.store
                /\ IF io = "email_client.send_email"
                   THEN \* lines 107-109: the entry written at lines 88-92 stays
                        resp' = [IntoResponse(r, "UnexpectedError")
                                   EXCEPT !.accessed = {"user_store.validate_user",
                                                        "user_store.get_user",
                                                        "two_fa_code_store.add_code",
                                                        "email_client.send_email"},
                                          !.cause = "send_email failed"]
                   ELSE resp' = [r EXCEPT
                                   !.status = 206,
                                   !.body = TwoFactorAuthResponse(login_attempt_id,
                                                                  two_fa_code),
                                   !.setLoginAttemptCookie = LOGIN_ATTEMPT_COOKIE_VALUE,
                                   !.accessed = {"user_store.validate_user",
                                                 "user_store.get_user",
                                                 "two_fa_code_store.add_code",
                                                 "email_client.send_email"}]

handle_no_2fa(r, email) ==
    LET token == generate_auth_token(email, now)
    IN  /\ jar' = token
        /\ issued' = issued \cup {token}
        /\ resp' = [r EXCEPT !.status = 200, !.setJwt = token,
                             !.body = [regular |-> TRUE],
                             !.accessed = {"user_store.validate_user",
                                           "user_store.get_user"}]
        /\ UNCHANGED <<codes, nextId, attempts>>

Login(email, password, number, io) ==
    LET r == [NoResp EXCEPT !.op = "login", !.email = email, !.password = password,
                            !.io = io]
    IN  /\ seq < MaxRequests
        /\ seq' = seq + 1
        /\ UNCHANGED <<tasks, userBackend, twoFaBackend, bannedBackend, users, banned, now, loggedOut,
                       signupPassword>>
        /\ IF ~Email_parse(email) \/ ~Password_parse(password)
           THEN /\ resp' = IntoResponse(r, "InvalidCredentials")
                /\ UNCHANGED <<codes, jar, nextId, issued, attempts>>
           ELSE LET valid == IF io = "user_store.validate_user" THEN IoError(io)
                             ELSE UserStore_validate_user(userBackend, users, email, password)
                    found == IF io = "user_store.get_user"
                             THEN [res |-> IoError(io), user |-> NoUser]
                             ELSE UserStore_get_user(userBackend, users, email)
                IN  IF valid # "Ok"
                    THEN /\ resp' = [IntoResponse(r, login_store_error(valid))
                                       EXCEPT !.accessed = {"user_store.validate_user"},
                                              !.cause = valid]
                         /\ UNCHANGED <<codes, jar, nextId, issued, attempts>>
                    ELSE IF found.res # "Ok"
                    THEN /\ resp' = [IntoResponse(r, login_store_error(found.res))
                                       EXCEPT !.accessed = {"user_store.validate_user",
                                                            "user_store.get_user"},
                                              !.cause = found.res]
                         /\ UNCHANGED <<codes, jar, nextId, issued, attempts>>
                    ELSE IF found.user.requires_2fa
                    THEN handle_2fa(r, found.user.email, number, io)
                    ELSE handle_no_2fa(r, found.user.email)

(***************************************************************************)
(* POST /verify-2fa (routes/verify_2fa.rs)                                 *)
(***************************************************************************)
\* a comparison that looks at the attempt id only
code_tuple_matches_id_only(login_attempt_id, two_fa_code, code_tuple) ==
    login_attempt_id = code_tuple.id

\* line 38: the submitted (id, code) pair against the stored tuple
code_tuple_matches(login_attempt_id, two_fa_code, code_tuple) ==
    login_attempt_id = code_tuple.id /\ two_fa_code = code_tuple.code

Verify2FA(email, id, code, io) ==
    LET r == [NoResp EXCEPT !.op = "verify_2fa", !.email = email, !.id = id, !.code = code,
                            !.io = io]
        login_attempt_id == LoginAttemptId_parse(id)
        two_fa_code == TwoFACode_parse(code)
    IN  /\ seq < MaxRequests
        /\ seq' = seq + 1
        /\ UNCHANGED <<tasks, userBackend, twoFaBackend, bannedBackend, users, banned, now, nextId,
                       attempts, loggedOut, signupPassword>>
        /\ IF ~Email_parse(email) \/ ~login_attempt_id.ok \/ ~two_fa_code.ok
           THEN /\ resp' = IntoResponse(r, "InvalidCredentials")
                /\ UNCHANGED <<codes, jar, issued>>
           ELSE LET code_tuple == IF io = "two_fa_code_store.get_code"
                                  THEN [res |-> IoError(io), id |-> NoId, code |-> <<>>]
                                  ELSE TwoFACodeStore_get_code(twoFaBackend, codes, email, now)
                    token == generate_auth_token(email, now)
                    removed == TwoFACodeStore_remove_code(twoFaBackend, codes, email)
                IN  IF code_tuple.res # "Ok"
                    THEN /\ resp' = [IntoResponse(r, "IncorrectCredentials")
                                       EXCEPT !.accessed = {"two_fa_code_store.get_code"},
                                              !.cause = code_tuple.res]
                         /\ UNCHANGED <<codes, jar, issued>>
                    ELSE IF ~code_tuple_matches(login_attempt_id.value, two_fa_code.value,
                                                code_tuple)
                    THEN /\ resp' = [IntoResponse(r, "IncorrectCredentials")
                                       EXCEPT !.accessed = {"two_fa_code_store.get_code"},
                                              !.cause = "Mismatch"]
                         /\ UNCHANGED <<codes, jar, issued>>
                    ELSE IF io = "generate_auth_cookie"
                    THEN \* lines 42-43: remove_code is not reached
                         /\ resp' = [IntoResponse(r, "UnexpectedError")
                                       EXCEPT !.accessed = {"two_fa_code_store.get_code"},
                                              !.cause = "generate_auth_cookie failed"]
                         /\ UNCHANGED <<codes, jar, issued>>
                    ELSE IF io = "two_fa_code_store.remove_code"
                    THEN \* lines 46-47: no cookie is returned, the entry stays
                         /\ resp' = [IntoResponse(r, "UnexpectedError")
                                       EXCEPT !.accessed = {"two_fa_code_store.get_code",
                                                            "two_fa_code_store.remove_code"},
                                              !.cause = IoError(io)]
                         /\ UNCHANGED <<codes, jar, issued>>
                    ELSE /\ codes' = removed.store
                         /\ jar' = token
                         /\ issued' = issued \cup {token}
                         /\ resp' = [r EXCEPT !.status = 200, !.setJwt = token,
                                              !.accessed = {"two_fa_code_store.get_code",
                                                            "two_fa_code_store.remove_code"}]

(***************************************************************************)
(* POST /logout (routes/logout.rs)                                         *)
(***************************************************************************)
\* a handler that hands the jar back with the cookie still in it
CookieJar_remove_kept(cookies) == cookies

\* line 37: jar.remove(JWT_COOKIE_NAME)
CookieJar_remove(cookies) == NoCookie

Logout(io) ==
    LET r == [NoResp EXCEPT !.op = "logout", !.token = jar, !.io = io]
        claims == validate_token(jar, bannedBackend, banned, now, io)
    IN  /\ seq < MaxRequests
        /\ seq' = seq + 1
        /\ UNCHANGED <<tasks, userBackend, twoFaBackend, bannedBackend, users, codes, now, nextId,
                       issued, attempts, signupPassword>>
        /\ IF jar = NoCookie
           THEN /\ resp' = IntoResponse(r, "MissingToken")
                /\ UNCHANGED <<banned, jar, loggedOut>>
           ELSE IF claims.res # "Ok"
           THEN /\ resp' = [IntoResponse(r, "InvalidToken")
                              EXCEPT !.accessed = {"banned_token_store.contains_token"},
                                     !.cause = claims.res]
                /\ UNCHANGED <<banned, jar, loggedOut>>
           ELSE IF io = "banned_token_store.add_token"
           THEN \* lines 29-34: unwrap() of the Err panics; the request is aborted
                \* and no response is returned
                /\ resp' = [r EXCEPT !.error = "Aborted",
                                     !.accessed = {"banned_token_store.contains_token",
                                                   "banned_token_store.add_token"},
                                     !.cause = "panic"]
                /\ UNCHANGED <<banned, jar, loggedOut>>
           ELSE /\ banned' = BannedTokenStore_add_token(bannedBackend, banned, jar, now)
                /\ jar' = CookieJar_remove(jar)
                /\ loggedOut' = loggedOut \cup {jar}
                /\ resp' = [r EXCEPT !.status = 200, !.removedJwt = TRUE,
                                     !.accessed = {"banned_token_store.contains_token",
                                                   "banned_token_store.add_token"}]

(***************************************************************************)
(* POST /verify-token (routes/verify_token.rs)                             *)
(***************************************************************************)
VerifyToken(token, io) ==
    LET r == [NoResp EXCEPT !.op = "verify_token", !.token = token, !.io = io, !.at = now,
                            !.accessed = {"banned_token_store.contains_token"}]
        claims == validate_token(token, bannedBackend, banned, now, io)
    IN  /\ seq < MaxRequests
        /\ seq' = seq + 1
        /\ UNCHANGED <<tasks, userBackend, twoFaBackend, bannedBackend, users, codes, banned, jar, now, nextId,
                       issued, attempts, loggedOut, signupPassword>>
        /\ IF claims.res # "Ok"
           THEN resp' = [IntoResponse(r, "InvalidToken") EXCEPT !.cause = claims.res]
           ELSE resp' = [r EXCEPT !.status = 200,
                                  !.body = [text |-> "Token verified successfully!"]]

(***************************************************************************)
(* The environment: the client's cookie jar and the clock.                 *)
(***************************************************************************)
\* Token strings a client can present: those it was sent, and strings without
\* a valid signature
KnownTokens == issued \cup {INVALID_TOKEN, FORGED_TOKEN}

\* the client puts a cookie of its choice into its jar
SetCookie(token) ==
    /\ jar # token
    /\ jar' = token
    /\ UNCHANGED <<tasks, userBackend, twoFaBackend, bannedBackend, users, codes, banned, now, nextId,
                   issued, attempts, loggedOut, signupPassword, seq, resp>>

\* Utc::now() advances
Tick ==
    /\ now + TickStep <= MaxTime
    /\ now' = now + TickStep
    /\ UNCHANGED <<tasks, userBackend, twoFaBackend, bannedBackend, users, codes, banned, jar, nextId,
                   issued, attempts, loggedOut, signupPassword, seq, resp>>

(***************************************************************************)
(* Initial states.  The stores of the hash-map backends start empty.  The  *)
(* users table of the Postgres backend is durable: at start-up it holds    *)
(* the rows written before (main.rs only runs the migrations).             *)
(***************************************************************************)
ValidPasswords == {p \in PasswordInputs : Password_parse(p)}

NoPassword == <<>>

\* the passwords of the accounts the users table holds at start-up
RowPasswords == {PW_1}

\* the row of an account created with password p: its hash, never p itself
StoredRow(email, p, salt, requires_2fa) ==
    User_new(email, Argon2Hash(p, salt), requires_2fa)

\* The store implementations the service is built with: the in-memory stores
\* together, or Postgres with Redis
Wirings == {<<"hashmap", "hashmap", "hashset">>, <<"postgres", "redis", "redis">>}

\* the stores behind Redis and the hash set start empty, no cookie, no request
InitRest ==
    /\ codes = [e \in ValidEmails |-> NoCode]
    /\ banned = {}
    /\ jar = NoCookie
    /\ now = 0
    /\ nextId = 1
    /\ issued = {}
    /\ attempts = [e \in ValidEmails |-> <<>>]
    /\ loggedOut = {}
    /\ seq = 0
    /\ resp = NoResp
    /\ tasks = [p \in Procs |-> IdleTask]

Init ==
    /\ \E wiring \in Wirings :
          /\ userBackend = wiring[1]
          /\ twoFaBackend = wiring[2]
          /\ bannedBackend = wiring[3]
    /\ \/ /\ userBackend = "hashmap"
          /\ users = [e \in ValidEmails |-> NoUser]
          /\ signupPassword = [e \in ValidEmails |-> NoPassword]
       \/ /\ userBackend = "postgres"
          /\ \/ /\ users = [e \in ValidEmails |-> NoUser]
                /\ signupPassword = [e \in ValidEmails |-> NoPassword]
             \/ \E p \in RowPasswords, salt \in Salts, f \in BOOLEAN :
                   /\ users = [e \in ValidEmails |->
                                  IF e = EMAIL_A THEN StoredRow(e, p, salt, f) ELSE NoUser]
                   /\ signupPassword = [e \in ValidEmails |->
                                           IF e = EMAIL_A THEN p ELSE NoPassword]
    /\ InitRest

\* Request inputs.  Credentials: well-formed ones for both identities, one
\* request for each way of being malformed, and a password of fewer than 8
\* characters that is 8 bytes long.
Credentials ==
    {<<EMAIL_A, PW_1>>, <<EMAIL_A, PW_2>>, <<EMAIL_B, PW_1>>,
     <<EMAIL_EMPTY, PW_1>>, <<EMAIL_NO_AT, PW_1>>, <<EMAIL_A, PW_SHORT>>,
     <<EMAIL_A, PW_WIDE>>}

\* Login attempt ids a client can submit: those handed out so far, the first
\* of them also in upper case, and a string that is no uuid
IdInputs ==
    {LoginAttemptId_default(k) : k \in 1..(nextId - 1)}
        \cup {[n |-> k, form |-> "upper"] : k \in {1} \cap 1..(nextId - 1)}

WRONG_CODE == <<"1", "2", "3", "4", "5", "6">>
MALFORMED_CODE == <<"1", "2", "x">>
SIGNED_CODE == <<"+", "1", "0", "0", "0", "0", "0">>
CodeInputs == {DecimalString(n) : n \in GenNumbers} \cup {WRONG_CODE}

Verify2FAInputs ==
    {<<email, id, code>> : email \in ValidEmails, id \in IdInputs, code \in CodeInputs}
        \cup {<<EMAIL_NO_AT, LoginAttemptId_default(1), WRONG_CODE>>,
              <<EMAIL_A, NotUuid, WRONG_CODE>>,
              <<EMAIL_A, LoginAttemptId_default(1), MALFORMED_CODE>>,
              <<EMAIL_A, LoginAttemptId_default(1), SIGNED_CODE>>}

Next ==
    \/ \E c \in Credentials, f \in BOOLEAN, salt \in Salts : Signup(c[1], c[2], f, salt)
    \/ \E c \in Credentials, number \in GenNumbers : Login(c[1], c[2], number, IO_OK)
    \/ \E v \in Verify2FAInputs : Verify2FA(v[1], v[2], v[3], IO_OK)
    \/ Logout(IO_OK)
    \/ \E token \in KnownTokens : VerifyToken(token, IO_OK)
    \/ \E token \in issued \cup {INVALID_TOKEN} : SetCookie(token)
    \/ Tick

Spec == Init /\ [][Next]_vars

(***************************************************************************)
(* The service with Postgres, Redis and the mail API (main.rs) in an       *)
(* environment where the I/O of a request can fail and where the users     *)
(* table can hold a row whose password_hash column is no PHC string.       *)
(***************************************************************************)
NOT_A_HASH == <<"n", "o", "t", "-", "a", "-", "h", "a", "s", "h">>

FaultInit ==
    /\ userBackend = "postgres" /\ twoFaBackend = "redis" /\ bannedBackend = "redis"
    /\ \/ /\ users = [e \in ValidEmails |-> NoUser]
          /\ signupPassword = [e \in ValidEmails |-> NoPassword]
       \/ \E p \in RowPasswords, salt \in Salts, f \in BOOLEAN :
             /\ users = [e \in ValidEmails |->
                            IF e = EMAIL_A THEN StoredRow(e, p, salt, f) ELSE NoUser]
             /\ signupPassword = [e \in ValidEmails |->
                                     IF e = EMAIL_A THEN p ELSE NoPassword]
       \/ \E f \in BOOLEAN :
             /\ users = [e \in ValidEmails |->
                            IF e = EMAIL_A THEN User_new(e, NOT_A_HASH, f) ELSE NoUser]
             /\ signupPassword = [e \in ValidEmails |-> NoPassword]
    /\ InitRest

FaultNext ==
    \/ \E c \in Credentials, f \in BOOLEAN, salt \in Salts :
          seq < MaxFaultRequests /\ Signup(c[1], c[2], f, salt)
    \/ \E c \in Credentials, number \in GenNumbers, io \in LoginIo :
          seq < MaxFaultRequests /\ Login(c[1], c[2], number, io)
    \/ \E v \in Verify2FAInputs, io \in Verify2FAIo :
          seq < MaxFaultRequests /\ Verify2FA(v[1], v[2], v[3], io)
    \/ \E io \in LogoutIo : seq < MaxFaultRequests /\ Logout(io)
    \/ \E token \in KnownTokens, io \in VerifyTokenIo :
          seq < MaxFaultRequests /\ VerifyToken(token, io)
    \/ \E token \in issued \cup {INVALID_TOKEN} : SetCookie(token)
    \/ Tick

FaultSpec == FaultInit /\ [][FaultNext]_vars

TypeOK ==
    /\ now \in 0..MaxTime
    /\ nextId \in 1..(MaxLogins + 1)
    /\ seq \in 0..MaxRequests
    /\ {b.token : b \in banned} \subseteq issued

(***************************************************************************)
(* Properties.                                                             *)
(***************************************************************************)
\* the step handles a request
Handled == seq' # seq

\* C1 (as stated): once a logout has succeeded for a session token T, every later
\* verify-token request carrying T and every later logout carrying T is
\* rejected with 401, whatever requests came in between and also while T has
\* not expired.
C1_RevokedTokenRejected ==
    [][(Handled /\ resp'.op \in {"verify_token", "logout"} /\ resp'.token \in loggedOut)
          => (resp'.status = 401 /\ resp'.error = "InvalidToken")]_vars

\* C2: the same correct (identity, attempt id, code) triple submitted to
\* verify-2fa twice in a row: the first submission returns 200 with a session
\* cookie, the second is rejected with IncorrectCredentials (401).
C2_CodeConsumedOnce ==
    [][/\ (/\ Handled /\ resp'.op = "verify_2fa" /\ Email_parse(resp'.email)
           /\ codes[resp'.email] # NoCode
           /\ (codes[resp'.email].expires = NoExpiry \/ now < codes[resp'.email].expires)
           /\ LoginAttemptId_parse(resp'.id).ok
           /\ LoginAttemptId_parse(resp'.id).value = codes[resp'.email].id
           /\ resp'.code = codes[resp'.email].code)
             => (resp'.status = 200 /\ resp'.setJwt # NoCookie)
       /\ (/\ resp.op = "verify_2fa" /\ resp.status = 200
           /\ Handled /\ resp'.op = "verify_2fa"
           /\ resp'.email = resp.email /\ resp'.id = resp.id /\ resp'.code = resp.code)
             => (/\ resp'.status = 401 /\ resp'.error = "IncorrectCredentials"
                 /\ resp'.setJwt = NoCookie)]_vars

\* the pair that the last login issued is submitted again after it was
\* accepted and consumed, and is refused
C2_Witness ==
    /\ resp.op = "verify_2fa" /\ resp.status = 401
    /\ resp.cause = "LoginAttemptIdNotFound"
    /\ attempts[resp.email] # <<>>
    /\ LET latest == attempts[resp.email][Len(attempts[resp.email])]
       IN  LoginAttemptId_parse(resp.id).value = latest.id /\ resp.code = latest.code
    /\ codes[resp.email] = NoCode
    /\ \E token \in issued : token.sub = resp.email

Pending(email) ==
    /\ codes[email] # NoCode
    /\ (codes[email].expires = NoExpiry \/ now < codes[email].expires)

WellFormedLogin(r) == Email_parse(r.email) /\ ByteLen(r.password) >= MIN_PASSWORD_LEN

\* C5 (as stated): for an account with the second-factor flag off, a login with
\* the correct password returns 200 with a session-token cookie, and validating
\* that token succeeds with the identity as subject and an expiry in the future.
C5_LoginIssuesValidToken ==
    [][(/\ Handled /\ resp'.op = "login" /\ Email_parse(resp'.email)
        /\ users[resp'.email] # NoUser /\ ~users[resp'.email].requires_2fa
        /\ resp'.password = signupPassword[resp'.email])
          => (/\ resp'.status = 200 /\ resp'.setJwt # NoCookie
              /\ LET claims == validate_token(resp'.setJwt, bannedBackend', banned', now', IO_OK)
                 IN  /\ claims.res = "Ok"
                     /\ claims.sub = resp'.email
                     /\ claims.exp > now')]_vars

\* C6: verify-2fa with the identity and attempt id of the pending entry but a
\* different well-formed code returns 401 and leaves the entry as it was; the
\* submission of the right code for that attempt that follows returns 200 with
\* a session cookie.
C6_WrongCodeKeepsEntry ==
    [][/\ (/\ Handled /\ resp'.op = "verify_2fa" /\ Email_parse(resp'.email)
           /\ Pending(resp'.email)
           /\ LoginAttemptId_parse(resp'.id).ok
           /\ LoginAttemptId_parse(resp'.id).value = codes[resp'.email].id
           /\ TwoFACode_parse(resp'.code).ok
           /\ resp'.code # codes[resp'.email].code)
             => (/\ resp'.status = 401 /\ resp'.error = "IncorrectCredentials"
                 /\ resp'.setJwt = NoCookie
                 /\ codes' = codes)
       /\ (/\ resp.op = "verify_2fa" /\ resp.cause = "Mismatch"
           /\ Handled /\ resp'.op = "verify_2fa"
           /\ resp'.email = resp.email /\ resp'.id = resp.id
           /\ Pending(resp.email)
           /\ LoginAttemptId_parse(resp.id).value = codes[resp.email].id
           /\ resp'.code = codes[resp.email].code)
             => (resp'.status = 200 /\ resp'.setJwt # NoCookie)]_vars

\* a wrong code for the pending attempt was refused and the entry is still there
C6_Witness ==
    /\ resp.op = "verify_2fa" /\ resp.status = 401 /\ resp.cause = "Mismatch"
    /\ Pending(resp.email)
    /\ LoginAttemptId_parse(resp.id).value = codes[resp.email].id
    /\ resp.code # codes[resp.email].code

\* what a caller sees of a response
Outward(r) ==
    [status |-> r.status, body |-> r.body, setJwt |-> r.setJwt,
     setLoginAttemptCookie |-> r.setLoginAttemptCookie]

IncorrectCredentialsResponse ==
    [status |-> 401, body |-> [error |-> "Incorrect credentials"],
     setJwt |-> NoCookie, setLoginAttemptCookie |-> <<>>]

\* C7: a well-formed login for an identity without an account and one for an
\* existing identity with a wrong password get the same response:
\* IncorrectCredentials (401), equal in status, body and cookies.
C7_NoAccountEnumeration ==
    (/\ resp.op = "login" /\ WellFormedLogin(resp)
     /\ (users[resp.email] = NoUser \/ resp.password # signupPassword[resp.email]))
        => (resp.error = "IncorrectCredentials"
            /\ Outward(resp) = IncorrectCredentialsResponse)

\* a login with a wrong password for an existing account was answered
C7_Witness ==
    /\ resp.op = "login" /\ WellFormedLogin(resp)
    /\ users[resp.email] # NoUser
    /\ resp.password # signupPassword[resp.email]
    /\ resp.status = 401

C9_DuplicateSignupAlways409 ==
    [][(Handled /\ resp'.op = "signup" /\ Email_parse(resp'.email)
        /\ users[resp'.email] # NoUser)
          => (/\ resp'.status = 409
              /\ resp'.body = [error |-> "User already exists"]
              /\ users' = users)]_vars

\* C9 (amended): a signup with a password of at least 8 bytes for an identity
\* that already has an account returns AlreadyExists (409, "User already
\* exists"); with a shorter password it returns InvalidCredentials (400); in
\* both cases the existing record is unchanged.
C9_DuplicateSignupRejected ==
    [][(Handled /\ resp'.op = "signup" /\ Email_parse(resp'.email)
        /\ users[resp'.email] # NoUser)
          => (/\ IF ByteLen(resp'.password) >= MIN_PASSWORD_LEN
                 THEN /\ resp'.status = 409
                      /\ resp'.body = [error |-> "User already exists"]
                 ELSE /\ resp'.status = 400
                      /\ resp'.body = [error |-> "Invalid credentials"]
              /\ users' = users)]_vars

\* a signup with another valid password and flag for an existing account was
\* refused with 409
C9_Witness ==
    /\ resp.op = "signup" /\ resp.status = 409
    /\ users[resp.email] # NoUser
    /\ resp.password # signupPassword[resp.email]

\* C10 (as stated): a signup with a well-formed email and a password of at
\* least 8 characters for an identity without an account returns 201 and
\* persists the account; the login with the same email and password that
\* follows is accepted, with a cookie whose token verifies when the flag is off.
C10_SignupThenLogin ==
    [][/\ (/\ Handled /\ resp'.op = "signup" /\ Email_parse(resp'.email)
           /\ Len(resp'.password) >= MIN_PASSWORD_LEN
           /\ users[resp'.email] = NoUser)
             => (resp'.status = 201 /\ users'[resp'.email] # NoUser)
       /\ (/\ resp.op = "signup" /\ resp.status = 201
           /\ Handled /\ resp'.op = "login"
           /\ resp'.email = resp.email /\ resp'.password = resp.password
           /\ ~users[resp.email].requires_2fa)
             => (/\ resp'.status = 200 /\ resp'.setJwt # NoCookie
                 /\ validate_token(resp'.setJwt, bannedBackend', banned', now', IO_OK).res = "Ok")]_vars

\* C11 (as stated): a signup whose email is empty or lacks '@', or whose password is shorter
\* than 8 characters, returns InvalidCredentials (400) and creates no record:
\* the store is as it was, and a get for an identity that had no account still
\* reports UserNotFound.
C11_InvalidSignupCreatesNothing ==
    [][(/\ Handled /\ resp'.op = "signup"
        /\ (~Email_parse(resp'.email) \/ Len(resp'.password) < MIN_PASSWORD_LEN))
          => (/\ resp'.status = 400 /\ resp'.error = "InvalidCredentials"
              /\ users' = users
              /\ \A e \in ValidEmails :
                    users[e] = NoUser
                       => UserStore_get_user(userBackend', users', e).res = "UserNotFound")]_vars

C13_VerifyTokenExactly ==
    [][(Handled /\ resp'.op = "verify_token")
          => LET token == resp'.token
                 good == /\ token.sig = "HS256"
                         /\ now <= token.exp
                         /\ ~BannedTokenStore_contains_token(bannedBackend, banned,
                                                             token, now)
             IN  /\ resp'.status = 200 <=> good
                 /\ ~good => (resp'.status = 401 /\ resp'.error = "InvalidToken")]_vars

\* a string of exactly six ASCII digits that denotes a number of 100000..999999
SixDigitCode(code) ==
    /\ Len(code) = 6
    /\ \A i \in 1..Len(code) : IsDigit(code[i])
    /\ code[1] # "0"

\* C14 (as stated): verify-2fa checks the formats first: a submission whose
\* email is malformed, whose login attempt id is no uuid or whose code is not a
\* 6-digit number returns InvalidCredentials (400) without reading or changing
\* the code store; a well-formed submission for an identity with no pending
\* entry returns IncorrectCredentials (401).
C14_Verify2FAFormatsFirst ==
    [][(Handled /\ resp'.op = "verify_2fa")
          => LET malformed == \/ ~Email_parse(resp'.email)
                              \/ resp'.id.form \notin UuidForms
                              \/ ~SixDigitCode(resp'.code)
             IN  /\ malformed
                       => (/\ resp'.status = 400 /\ resp'.error = "InvalidCredentials"
                           /\ resp'.accessed = {}
                           /\ codes' = codes)
                 /\ (~malformed /\ ~Pending(resp'.email))
                       => (resp'.status = 401 /\ resp'.error = "IncorrectCredentials")]_vars

\* C15 (as stated): password hashing round-trips: for every valid password P,
\* computing the hash of P succeeds and verifying P against that hash
\* succeeds, while verifying any other password against it fails.  Stated of
\* the passwords the Postgres store hashes when signup adds a user.
C15_HashRoundTrip ==
    [][(/\ Handled /\ resp'.op = "signup" /\ userBackend = "postgres"
        /\ "user_store.add_user" \in resp'.accessed)
          => \A salt \in Salts :
                LET p == resp'.password
                    password_hash == compute_password_hash(p, salt)
                IN  /\ password_hash.ok
                    /\ verify_password_hash(password_hash.value, p)
                    /\ \A q \in PasswordInputs \ {p} :
                          ~verify_password_hash(password_hash.value, q)]_vars

\* C16: validate_user fails with UserNotFound when the identity has no account,
\* fails with InvalidCredentials when the account exists and the password is
\* not the one given at signup, returns Ok otherwise; checking credentials
\* never changes the store.
C16_ValidateUser ==
    [][/\ \A e \in ValidEmails, p \in ValidPasswords :
             LET valid == UserStore_validate_user(userBackend, users, e, p)
             IN  /\ users[e] = NoUser => valid = "UserNotFound"
                 /\ (users[e] # NoUser /\ p # signupPassword[e])
                       => valid = "InvalidCredentials"
                 /\ (users[e] # NoUser /\ p = signupPassword[e]) => valid = "Ok"
       /\ (Handled /\ resp'.op = "login") => users' = users]_vars

\* a login with a well-formed wrong password for an existing account has been
\* refused by validate_user with InvalidCredentials, the account unchanged
C16_Witness ==
    /\ resp.op = "login" /\ resp.cause = "InvalidCredentials"
    /\ users[resp.email] # NoUser
    /\ resp.password # signupPassword[resp.email]
    /\ UserStore_validate_user(userBackend, users, resp.email,
                               signupPassword[resp.email]) = "Ok"

\* the step runs add_code for the identity / remove_code for the identity
AddsCode(e) ==
    Handled /\ resp'.op = "login" /\ resp'.email = e
        /\ "two_fa_code_store.add_code" \in resp'.accessed

RemovesCode(e) ==
    Handled /\ resp'.op = "verify_2fa" /\ resp'.email = e
        /\ "two_fa_code_store.remove_code" \in resp'.accessed

\* the pair the latest add_code stored for the identity, as get_code reports it
LatestPair(e) ==
    LET latest == attempts[e][Len(attempts[e])]
    IN  [res |-> "Ok", id |-> latest.id, code |-> latest.code]

\* C17 (as stated): the pair stored by add_code for an identity is returned
\* verbatim by get_code until remove_code is called for that identity or a
\* later add_code replaces it; after remove_code, get_code reports
\* LoginAttemptIdNotFound; after a later add_code the later pair is returned;
\* entries of other identities are unaffected.
C17_StoredPairUntilRemoved ==
    [][\A e \in ValidEmails :
          LET before == TwoFACodeStore_get_code(twoFaBackend, codes, e, now)
              after == TwoFACodeStore_get_code(twoFaBackend', codes', e, now')
          IN  /\ AddsCode(e) => after = LatestPair(e)'
              /\ RemovesCode(e) => after.res = "LoginAttemptIdNotFound"
              /\ (~AddsCode(e) /\ ~RemovesCode(e)) => after = before]_vars

\* C17 (amended): as above, except that in the Redis store the pair is
\* returned only until 600 seconds have passed since its add_code; from then
\* on get_code reports LoginAttemptIdNotFound.
C17_StoredPairUntilRemovedOrExpired ==
    [][\A e \in ValidEmails :
          LET before == TwoFACodeStore_get_code(twoFaBackend, codes, e, now)
              after == TwoFACodeStore_get_code(twoFaBackend', codes', e, now')
              expired == /\ twoFaBackend = "redis" /\ attempts[e] # <<>>
                         /\ now' >= attempts[e][Len(attempts[e])].at
                                       + TEN_MINUTES_IN_SECONDS
          IN  /\ AddsCode(e) => after = LatestPair(e)'
              /\ RemovesCode(e) => after.res = "LoginAttemptIdNotFound"
              /\ (~AddsCode(e) /\ ~RemovesCode(e))
                    => IF before.res = "Ok" /\ expired
                       THEN after.res = "LoginAttemptIdNotFound"
                       ELSE after = before]_vars

\* a pair stored in the Redis store and never removed is no longer found once
\* its 600 seconds are over
C17_Witness ==
    /\ twoFaBackend = "redis"
    /\ \E e \in ValidEmails :
          /\ attempts[e] # <<>> /\ codes[e] # NoCode
          /\ now >= attempts[e][Len(attempts[e])].at + TEN_MINUTES_IN_SECONDS
          /\ TwoFACodeStore_get_code(twoFaBackend, codes, e, now).res
                = "LoginAttemptIdNotFound"

\* C18 (as stated): a session token issued at time t carries expiry t + 600; an
\* unrevoked token validates at any time before its expiry; at any time after
\* t + 600 validation rejects it, revoked or not.
C18_TokenLifetime ==
    [][/\ (Handled /\ resp'.setJwt # NoCookie)
             => resp'.setJwt.exp = now' + TOKEN_TTL_SECONDS
       /\ \A token \in issued' :
             LET claims == validate_token(token, bannedBackend', banned', now', IO_OK)
             IN  /\ (token \notin loggedOut' /\ now' < token.exp) => claims.res = "Ok"
                 /\ now' > token.exp => claims.res # "Ok"]_vars

\* C19 (as stated): a pending second-factor entry stops being retrievable 600
\* seconds after the add_code that stored it: from then on get_code reports
\* not-found and a verify-2fa submission of its pair is rejected with
\* IncorrectCredentials; a later add_code starts a new 600-second window.
C19_PendingEntryExpires ==
    [][\A e \in ValidEmails :
          attempts'[e] # <<>>
             => LET latest == attempts'[e][Len(attempts'[e])]
                    over == now' >= latest.at + TEN_MINUTES_IN_SECONDS
                    found == TwoFACodeStore_get_code(twoFaBackend', codes', e, now')
                IN  /\ over => found.res = "LoginAttemptIdNotFound"
                    /\ (/\ over /\ Handled /\ resp'.op = "verify_2fa" /\ resp'.email = e
                        /\ attempts[e] # <<>> /\ resp'.status # 400)
                          => (resp'.status = 401 /\ resp'.error = "IncorrectCredentials")
                    /\ AddsCode(e) => (found = LatestPair(e)' /\ latest.at = now')]_vars

\* C20: a successful logout removes the session cookie from the caller, so a
\* second logout sent right after it by the same client returns 400
\* (MissingToken) and does not change the revocation store.
C20_SecondLogoutMissingToken ==
    [][/\ (Handled /\ resp'.op = "logout" /\ resp'.status = 200)
             => (jar' = NoCookie /\ resp'.removedJwt)
       /\ (/\ resp.op = "logout" /\ resp.status = 200 /\ jar = NoCookie
           /\ Handled /\ resp'.op = "logout")
             => (/\ resp'.status = 400 /\ resp'.error = "MissingToken"
                 /\ banned' = banned)]_vars

\* three requests, login, logout and logout again: the last one found no cookie
C20_Witness ==
    /\ userBackend = "postgres" /\ seq = 3
    /\ Cardinality(issued) = 1 /\ nextId = 1 /\ loggedOut = issued
    /\ resp.op = "logout" /\ resp.status = 400 /\ resp.error = "MissingToken"
    /\ Cardinality(banned) = 1

(***************************************************************************)
(* The parse functions of the domain types on their own: TwoFACode::parse, *)
(* TwoFACode::default and Password::parse applied to bounded sets of       *)
(* strings.  The initial state holds the call in resp (op and argument,    *)
(* cause "pending"); the step makes the call and puts its outcome in cause.*)
(***************************************************************************)
MaxCodeLen == 7
MaxPasswordLen == 9

\* every string of at most n characters over the alphabet
StringsOver(alphabet, n) == UNION {[1..k -> alphabet] : k \in 0..n}

CodeAlphabet == {"+", "0", "1", "9"}
NEGATIVE_CODE == <<"-", "1", "0", "0", "0", "0", "0">>
TwoFACodeStrings == StringsOver(CodeAlphabet, MaxCodeLen) \cup {MALFORMED_CODE, NEGATIVE_CODE}

\* numbers gen_range(100_000..=999_999) can draw: both ends and their neighbours
DefaultNumbers == GenNumbers \cup {TWO_FA_CODE_MIN + 1, TWO_FA_CODE_MAX - 1}

PasswordAlphabet == {"p"} \cup TwoByteChars
PasswordStrings == StringsOver(PasswordAlphabet, MaxPasswordLen)

PendingCall(op) == [NoResp EXCEPT !.op = op, !.cause = "pending"]

Call_TwoFACode_parse ==
    /\ resp.op = "TwoFACode::parse" /\ resp.cause = "pending"
    /\ resp' = [resp EXCEPT !.cause = IF TwoFACode_parse(resp.code).ok
                                      THEN "Ok" ELSE "Invalid email code"]
    /\ UNCHANGED <<tasks, userBackend, twoFaBackend, bannedBackend, users, codes, banned, jar,
                   now, nextId, issued, attempts, loggedOut, signupPassword, seq>>

Call_TwoFACode_default(n) ==
    /\ resp.op = "TwoFACode::default" /\ resp.cause = "pending"
    /\ resp' = [resp EXCEPT !.code = TwoFACode_default(n), !.cause = "Ok"]
    /\ UNCHANGED <<tasks, userBackend, twoFaBackend, bannedBackend, users, codes, banned, jar,
                   now, nextId, issued, attempts, loggedOut, signupPassword, seq>>

Call_Password_parse ==
    /\ resp.op = "Password::parse" /\ resp.cause = "pending"
    /\ resp' = [resp EXCEPT !.cause = IF Password_parse(resp.password)
                                      THEN "Ok"
                                      ELSE "Failed to parse string to a Password type"]
    /\ UNCHANGED <<tasks, userBackend, twoFaBackend, bannedBackend, users, codes, banned, jar,
                   now, nextId, issued, attempts, loggedOut, signupPassword, seq>>

\* the conversion of a store error, and the response the converted error
\* is rendered as
Call_AuthAPIError_from ==
    /\ resp.op = "AuthAPIError::from" /\ resp.cause = "pending"
    /\ resp' = [IntoResponse(resp, AuthAPIError_from(resp.body.store_error))
                  EXCEPT !.body = resp.body, !.cause = "Ok"]
    /\ UNCHANGED <<tasks, userBackend, twoFaBackend, bannedBackend, users, codes, banned, jar,
                   now, nextId, issued, attempts, loggedOut, signupPassword, seq>>

DomainInit ==
    /\ userBackend = "hashmap" /\ twoFaBackend = "hashmap" /\ bannedBackend = "hashset"
    /\ users = [e \in ValidEmails |-> NoUser]
    /\ signupPassword = [e \in ValidEmails |-> NoPassword]
    /\ codes = [e \in ValidEmails |-> NoCode]
    /\ banned = {}
    /\ jar = NoCookie
    /\ now = 0
    /\ nextId = 1
    /\ issued = {}
    /\ attempts = [e \in ValidEmails |-> <<>>]
    /\ loggedOut = {}
    /\ seq = 0
    /\ tasks = [p \in Procs |-> IdleTask]
    /\ \/ \E code \in TwoFACodeStrings :
             resp = [PendingCall("TwoFACode::parse") EXCEPT !.code = code]
       \/ resp = PendingCall("TwoFACode::default")
       \/ \E s \in PasswordStrings :
             resp = [PendingCall("Password::parse") EXCEPT !.password = s]
       \/ \E e \in UserStoreErrors :
             resp = [PendingCall("AuthAPIError::from") EXCEPT !.body = [store_error |-> e]]

DomainNext ==
    \/ Call_TwoFACode_parse
    \/ \E n \in DefaultNumbers : Call_TwoFACode_default(n)
    \/ Call_Password_parse
    \/ Call_AuthAPIError_from

DomainSpec == DomainInit /\ [][DomainNext]_vars

\* C21 (as stated): TwoFACode::parse accepts a string exactly when it consists
\* of exactly 6 ASCII digits denoting a number from 100000 to 999999 (a sign,
\* leading zeros and every other length are rejected), and every code that
\* TwoFACode::default produces is accepted by parse.
C21_TwoFACodeParseExact ==
    /\ (resp.op = "TwoFACode::parse" /\ resp.cause # "pending")
          => (resp.cause = "Ok" <=> SixDigitCode(resp.code))
    /\ (resp.op = "TwoFACode::default" /\ resp.cause # "pending")
          => TwoFACode_parse(resp.code).ok

\* C22 (as stated): Password::parse accepts a password exactly when it has at
\* least 8 characters.
C22_PasswordParseExact ==
    (resp.op = "Password::parse" /\ resp.cause # "pending")
        => (resp.cause = "Ok" <=> Len(resp.password) >= MIN_PASSWORD_LEN)

(***************************************************************************)
(* The banned-token store on its own: add_token and contains_token called  *)
(* directly, as the unit tests of the store do.  resp holds the call (op   *)
(* and token) with its outcome in cause; for add_token the body notes      *)
(* whether the store held the token when the call was made.                *)
(***************************************************************************)
StoreTokens ==
    {generate_auth_token(EMAIL_A, 0), generate_auth_token(EMAIL_B, 0), INVALID_TOKEN}

\* the tokens the store holds at time t
HeldTokens(bs, t) == {b.token : b \in {x \in bs : x.expires = NoExpiry \/ t < x.expires}}

Call_add_token(token) ==
    /\ seq < MaxRequests
    /\ seq' = seq + 1
    /\ banned' = BannedTokenStore_add_token(bannedBackend, banned, token, now)
    /\ resp' = [NoResp EXCEPT !.op = "add_token", !.token = token, !.cause = "Ok",
                              !.body = [held_before |-> token \in HeldTokens(banned, now)],
                              !.accessed = {"banned_token_store.add_token"}]
    /\ UNCHANGED <<tasks, userBackend, twoFaBackend, bannedBackend, users, codes, jar, now, nextId,
                   issued, attempts, loggedOut, signupPassword>>

Call_contains_token(token) ==
    /\ seq < MaxRequests
    /\ seq' = seq + 1
    /\ resp' = [NoResp EXCEPT !.op = "contains_token", !.token = token,
                              !.cause = IF BannedTokenStore_contains_token(
                                               bannedBackend, banned, token, now)
                                        THEN "Ok(true)" ELSE "Ok(false)",
                              !.accessed = {"banned_token_store.contains_token"}]
    /\ UNCHANGED <<tasks, userBackend, twoFaBackend, bannedBackend, users, codes, banned, jar, now,
                   nextId, issued, attempts, loggedOut, signupPassword>>

StoreNext ==
    \/ \E token \in StoreTokens : Call_add_token(token)
    \/ \E token \in StoreTokens : Call_contains_token(token)
    \/ Tick

StoreSpec == Init /\ [][StoreNext]_vars

\* C23: revoking is idempotent: add_token on a token the store already holds
\* returns Ok and leaves the store as it was after the first add_token:
\* contains_token is then true for that token and unchanged for every other
\* token (and the hash set itself is unchanged).
C23_RevokeIdempotent ==
    [][(Handled /\ resp'.op = "add_token" /\ resp'.token \in HeldTokens(banned, now))
          => (/\ resp'.cause = "Ok"
              /\ bannedBackend = "hashset" => banned' = banned
              /\ BannedTokenStore_contains_token(bannedBackend', banned', resp'.token, now')
              /\ \A u \in StoreTokens \ {resp'.token} :
                    BannedTokenStore_contains_token(bannedBackend', banned', u, now')
                       = BannedTokenStore_contains_token(bannedBackend, banned, u, now))]_vars

\* add_token has been called on a token that the hash set already held, while
\* it held another token too
C23_Witness ==
    /\ bannedBackend = "hashset"
    /\ resp.op = "add_token" /\ resp.body.held_before
    /\ Cardinality(banned) = 2

\* C24: validate_token asks the banned-token store before it checks signature
\* and expiry: a banned token fails as "token is banned" whether or not it
\* would decode, a failed lookup fails the validation (the token is not
\* accepted), and only a token the store reports as not banned gets decoded.
C24_RevocationCheckedFirst ==
    [][(Handled /\ resp'.op \in {"verify_token", "logout"} /\ resp'.token # NoCookie)
          => LET held == BannedTokenStore_contains_token(bannedBackend, banned,
                                                         resp'.token, now)
                 failed == resp'.io = "banned_token_store.contains_token"
             IN  /\ failed => (resp'.status = 401 /\ resp'.cause = "UnexpectedError")
                 /\ (~failed /\ held)
                       => (resp'.status = 401 /\ resp'.cause = "token is banned")
                 /\ resp'.cause = "failed to decode token" => (~failed /\ ~held)
                 /\ resp'.status = 200 => (~failed /\ ~held)]_vars

\* verify-token was asked about a banned token that no longer decodes, and
\* answered that the token is banned
C24_Witness ==
    /\ resp.op = "verify_token" /\ resp.cause = "token is banned"
    /\ decode(resp.token, resp.at) # "Ok"

\* the operation whose I/O fails during the request was invoked by the handler
IoFailed(r) == r.io # IO_OK /\ r.io \in r.accessed

\* C25 (as stated): a store I/O failure during login (in the credential
\* store's validate or get) or during verify-2fa (in the code store's get) is
\* answered with UnexpectedError (500), never with IncorrectCredentials.
C25_StoreFailureIsUnexpectedError ==
    [][(/\ Handled
        /\ IoFailed(resp')
        /\ \/ resp'.op = "login"
              /\ resp'.io \in {"user_store.validate_user", "user_store.get_user"}
           \/ resp'.op = "verify_2fa" /\ resp'.io = "two_fa_code_store.get_code")
          => (resp'.status = 500 /\ resp'.error = "UnexpectedError")]_vars

\* C26 (as stated): when the banned-token store fails while logout adds a
\* validated token, logout returns UnexpectedError (it neither succeeds nor is
\* aborted) and the token is not recorded as logged out.
C26_LogoutStoreFailure ==
    [][(/\ Handled /\ resp'.op = "logout"
        /\ IoFailed(resp') /\ resp'.io = "banned_token_store.add_token")
          => (/\ resp'.status = 500 /\ resp'.error = "UnexpectedError"
              /\ resp'.token \notin loggedOut'
              /\ ~resp'.removedJwt)]_vars

\* C27: when the email dispatch fails during a second-factor login, login
\* returns UnexpectedError (500) and neither a pending (206) nor a success
\* response, with no cookie; the entry written before the dispatch stays, and
\* the next login for that identity overwrites it with its own pair.
C27_DispatchFailure ==
    [][/\ (/\ Handled /\ resp'.op = "login"
           /\ IoFailed(resp') /\ resp'.io = "email_client.send_email")
             => (/\ resp'.status = 500 /\ resp'.error = "UnexpectedError"
                 /\ resp'.body = [error |-> "Unexpected error"]
                 /\ resp'.setJwt = NoCookie /\ resp'.setLoginAttemptCookie = <<>>
                 /\ UNCHANGED <<jar, issued, users, banned>>
                 /\ \A e \in ValidEmails \ {resp'.email} : codes'[e] = codes[e])
       /\ (/\ resp.op = "login" /\ IoFailed(resp) /\ resp.io = "email_client.send_email"
           /\ Handled /\ resp'.op = "login" /\ resp'.email = resp.email
           /\ resp'.status = 206)
             => (/\ codes'[resp'.email] # codes[resp'.email]
                 /\ codes'[resp'.email].id = resp'.body.loginAttemptId
                 /\ codes'[resp'.email].id
                       = attempts'[resp'.email][Len(attempts'[resp'.email])].id
                 /\ codes'[resp'.email].code
                       = attempts'[resp'.email][Len(attempts'[resp'.email])].code)]_vars

\* a login whose email dispatch failed was answered with 500 and its entry is
\* in the code store
C27_Witness ==
    /\ resp.op = "login" /\ IoFailed(resp) /\ resp.io = "email_client.send_email"
    /\ resp.status = 500
    /\ codes[resp.email] # NoCode

\* C28 (as stated): when the stored password hash of an account cannot be
\* parsed as a hash, the credential validation of a login fails with
\* UnexpectedError, not with InvalidCredentials.
C28_UnparsableHashIsUnexpectedError ==
    [][(/\ Handled /\ resp'.op = "login"
        /\ "user_store.validate_user" \in resp'.accessed
        /\ users[resp'.email] # NoUser
        /\ ~PasswordHash_new(users[resp'.email].password).ok)
          => resp'.cause = "UnexpectedError"]_vars

\* C29 (as stated): in every reachable state every account record of the
\* credential store holds a hash of the account's password and never the raw
\* password, and validation accepts a password exactly when hash verification
\* of the stored hash accepts it (no comparison of raw passwords).
C29_OnlyHashesStored ==
    \A e \in ValidEmails :
        users[e] # NoUser
           => (/\ PasswordHash_new(users[e].password).ok
               /\ users[e].password # signupPassword[e]
               /\ \A p \in ValidPasswords :
                     (UserStore_validate_user(userBackend, users, e, p) = "Ok")
                        <=> verify_password_hash(users[e].password, p))

(***************************************************************************)
(* The handlers step by step, for requests that run concurrently.  A task  *)
(* runs from one await to the next in one step: an await of read() or      *)
(* write() on a lock of AppState, or of a store or email operation.  A     *)
(* guard bound with let lives until the handler returns; a guard that is a *)
(* temporary of a statement is dropped at the end of that statement.  The  *)
(* token of logout and verify-token is part of the request (each client    *)
(* has its own cookie jar), and the clock stands still.  The number of     *)
(* requests is bounded, and with it the number of attempt ids.             *)
(***************************************************************************)
MaxConcRequests == 3

USER_STORE == "user_store"
CODE_STORE == "two_fa_code_store"
BANNED_STORE == "banned_token_store"
EMAIL_CLIENT == "email_client"

\* a lock that is granted at once, whatever the other tasks hold
CanLock_free(p, lock, mode) == TRUE

\* tokio::sync::RwLock: read() is granted while no other task holds the write
\* guard, write() while no other task holds any guard of the lock
CanLock(p, lock, mode) ==
    \A q \in Procs \ {p} :
        \A h \in tasks[q].held : h[1] = lock => (mode = "read" /\ h[2] = "read")

\* a return that leaves the guards of the task in place
Return_keeping_guards(t, r) == [t EXCEPT !.pc = "done", !.r = r]

\* the task returns the response: every guard it still holds is dropped
Return(t, r) == [t EXCEPT !.pc = "done", !.held = {}, !.r = r]

InFlight(q) == tasks[q].pc \notin {"idle", "done"}

\* the task of a request that has just been accepted
NewTask(p) ==
    [IdleTask EXCEPT !.n = seq + 1,
                     !.with = {tasks[q].n : q \in {o \in Procs \ {p} : InFlight(o)}},
                     !.registered = {e \in ValidEmails : users[e] # NoUser}]

\* the task takes up a new request
Accept(p) ==
    /\ tasks[p].pc \in {"idle", "done"}
    /\ seq < MaxConcRequests
    /\ seq' = seq + 1

\* ---- signup.rs ----
signup_start(p, email, password, requires_2fa) ==
    LET r == [NoResp EXCEPT !.op = "signup", !.email = email, !.password = password]
    IN  /\ Accept(p)
        /\ tasks' = [tasks EXCEPT ![p] =
              IF signup_invalid_input(email, password)
              THEN Return(NewTask(p), IntoResponse(r, "InvalidCredentials"))
              ELSE [NewTask(p) EXCEPT !.pc = "signup_lock", !.r = r,
                                    !.user = User_new(email, password, requires_2fa)]]
        /\ UNCHANGED <<userBackend, twoFaBackend, bannedBackend, users, codes, banned, jar,
                       now, nextId, issued, attempts, loggedOut, signupPassword, resp>>

\* line 29: let mut user_store = state.user_store.write().await
signup_lock(p) ==
    /\ tasks[p].pc = "signup_lock"
    /\ CanLock(p, USER_STORE, "write")
    /\ tasks' = [tasks EXCEPT ![p].pc = "signup_get_user",
                              ![p].held = @ \cup {<<USER_STORE, "write">>}]
    /\ UNCHANGED <<userBackend, twoFaBackend, bannedBackend, users, codes, banned, jar,
                   now, nextId, issued, attempts, loggedOut, signupPassword, seq, resp>>

\* lines 32-34
signup_get_user(p) ==
    LET t == tasks[p]
        found == UserStore_get_user(userBackend, users, t.r.email)
    IN  /\ t.pc = "signup_get_user"
        /\ tasks' = [tasks EXCEPT ![p] =
              IF found.res = "Ok"
              THEN Return(t, [IntoResponse(t.r, "UserAlreadyExists")
                                EXCEPT !.accessed = {"user_store.get_user"}])
              ELSE [t EXCEPT !.pc = "signup_add_user"]]
        /\ UNCHANGED <<userBackend, twoFaBackend, bannedBackend, users, codes, banned, jar,
                       now, nextId, issued, attempts, loggedOut, signupPassword, seq, resp>>

\* lines 37-43
signup_add_user(p, salt) ==
    LET t == tasks[p]
        added == UserStore_add_user(userBackend, users, t.user, salt)
    IN  /\ t.pc = "signup_add_user"
        /\ users' = added.store
        /\ IF added.res # "Ok"
           THEN /\ tasks' = [tasks EXCEPT ![p] =
                      Return(t, [IntoResponse(t.r, "UnexpectedError")
                                   EXCEPT !.accessed = {"user_store.get_user",
                                                        "user_store.add_user"},
                                          !.cause = added.res])]
                /\ UNCHANGED signupPassword
           ELSE /\ tasks' = [tasks EXCEPT ![p] =
                      Return(t, [t.r EXCEPT !.status = 201,
                                            !.body = [message |-> "User created successfully!"],
                                            !.accessed = {"user_store.get_user",
                                                          "user_store.add_user"}])]
                /\ signupPassword' = [signupPassword EXCEPT ![t.r.email] = t.r.password]
        /\ UNCHANGED <<userBackend, twoFaBackend, bannedBackend, codes, banned, jar,
                       now, nextId, issued, attempts, loggedOut, seq, resp>>

\* ---- login.rs ----
\* lines 19-28
login_start(p, email, password) ==
    LET r == [NoResp EXCEPT !.op = "login", !.email = email, !.password = password]
    IN  /\ Accept(p)
        /\ tasks' = [tasks EXCEPT ![p] =
              IF ~Email_parse(email) \/ ~Password_parse(password)
              THEN Return(NewTask(p), IntoResponse(r, "InvalidCredentials"))
              ELSE [NewTask(p) EXCEPT !.pc = "login_lock", !.r = r]]
        /\ UNCHANGED <<userBackend, twoFaBackend, bannedBackend, users, codes, banned, jar,
                       now, nextId, issued, attempts, loggedOut, signupPassword, resp>>

\* line 30: let user_store = &state.user_store.read().await; the guard lives
\* until login returns
login_lock(p) ==
    /\ tasks[p].pc = "login_lock"
    /\ CanLock(p, USER_STORE, "read")
    /\ tasks' = [tasks EXCEPT ![p].pc = "login_validate_user",
                              ![p].held = @ \cup {<<USER_STORE, "read">>}]
    /\ UNCHANGED <<userBackend, twoFaBackend, bannedBackend, users, codes, banned, jar,
                   now, nextId, issued, attempts, loggedOut, signupPassword, seq, resp>>

\* lines 34-36
login_validate_user(p) ==
    LET t == tasks[p]
        valid == UserStore_validate_user(userBackend, users, t.r.email, t.r.password)
    IN  /\ t.pc = "login_validate_user"
        /\ tasks' = [tasks EXCEPT ![p] =
              IF valid # "Ok"
              THEN Return(t, [IntoResponse(t.r, login_store_error(valid))
                                EXCEPT !.accessed = {"user_store.validate_user"},
                                       !.cause = valid])
              ELSE [t EXCEPT !.pc = "login_get_user"]]
        /\ UNCHANGED <<userBackend, twoFaBackend, bannedBackend, users, codes, banned, jar,
                       now, nextId, issued, attempts, loggedOut, signupPassword, seq, resp>>

\* lines 38-47, then handle_no_2fa (131-136) or handle_2fa up to its first
\* await (84-91): the attempt id and the code are generated
login_get_user(p, number) ==
    LET t == tasks[p]
        found == UserStore_get_user(userBackend, users, t.r.email)
        token == generate_auth_token(t.r.email, now)
    IN  /\ t.pc = "login_get_user"
        /\ IF found.res # "Ok"
           THEN /\ tasks' = [tasks EXCEPT ![p] =
                      Return(t, [IntoResponse(t.r, login_store_error(found.res))
                                   EXCEPT !.accessed = {"user_store.validate_user",
                                                        "user_store.get_user"},
                                          !.cause = found.res])]
                /\ UNCHANGED <<nextId, issued>>
           ELSE IF found.user.requires_2fa
           THEN /\ nextId' = nextId + 1
                /\ tasks' = [tasks EXCEPT ![p] =
                      [t EXCEPT !.pc = "handle_2fa_lock", !.user = found.user,
                                !.pair = [id |-> LoginAttemptId_default(nextId),
                                          code |-> TwoFACode_default(number)]]]
                /\ UNCHANGED issued
           ELSE /\ tasks' = [tasks EXCEPT ![p] =
                      Return(t, [t.r EXCEPT !.status = 200, !.setJwt = token,
                                            !.body = [regular |-> TRUE],
                                            !.accessed = {"user_store.validate_user",
                                                          "user_store.get_user"}])]
                /\ issued' = issued \cup {token}
                /\ UNCHANGED nextId
        /\ UNCHANGED <<userBackend, twoFaBackend, bannedBackend, users, codes, banned, jar,
                       now, attempts, loggedOut, signupPassword, seq, resp>>

\* lines 88-91: state.two_factor_code_store.write().await
handle_2fa_lock(p) ==
    /\ tasks[p].pc = "handle_2fa_lock"
    /\ CanLock(p, CODE_STORE, "write")
    /\ tasks' = [tasks EXCEPT ![p].pc = "handle_2fa_add_code",
                              ![p].held = @ \cup {<<CODE_STORE, "write">>}]
    /\ UNCHANGED <<userBackend, twoFaBackend, bannedBackend, users, codes, banned, jar,
                   now, nextId, issued, attempts, loggedOut, signupPassword, seq, resp>>

\* line 92: add_code; the write guard is a temporary of the statement
handle_2fa_add_code(p) ==
    LET t == tasks[p]
        stored == TwoFACodeStore_add_code(twoFaBackend, codes, t.user.email,
                                          t.pair.id, t.pair.code, now)
    IN  /\ t.pc = "handle_2fa_add_code"
        /\ codes' = stored.store
        /\ attempts' = [attempts EXCEPT ![t.user.email] =
                           Append(@, [id |-> t.pair.id, code |-> t.pair.code, at |-> now])]
        /\ tasks' = [tasks EXCEPT ![p].pc = "handle_2fa_lock_email",
                                  ![p].held = @ \ {<<CODE_STORE, "write">>}]
        /\ UNCHANGED <<userBackend, twoFaBackend, bannedBackend, users, banned, jar,
                       now, nextId, issued, loggedOut, signupPassword, seq, resp>>

\* line 99: let email_client = state.email_client.read().await
handle_2fa_lock_email(p) ==
    /\ tasks[p].pc = "handle_2fa_lock_email"
    /\ CanLock(p, EMAIL_CLIENT, "read")
    /\ tasks' = [tasks EXCEPT ![p].pc = "handle_2fa_send_email",
                              ![p].held = @ \cup {<<EMAIL_CLIENT, "read">>}]
    /\ UNCHANGED <<userBackend, twoFaBackend, bannedBackend, users, codes, banned, jar,
                   now, nextId, issued, attempts, loggedOut, signupPassword, seq, resp>>

\* lines 100-120: send_email, then the 206 response
handle_2fa_send_email(p) ==
    LET t == tasks[p]
    IN  /\ t.pc = "handle_2fa_send_email"
        /\ tasks' = [tasks EXCEPT ![p] =
              Return(t, [t.r EXCEPT
                           !.status = 206,
                           !.body = TwoFactorAuthResponse(t.pair.id, t.pair.code),
                           !.setLoginAttemptCookie = LOGIN_ATTEMPT_COOKIE_VALUE,
                           !.accessed = {"user_store.validate_user", "user_store.get_user",
                                         "two_fa_code_store.add_code",
                                         "email_client.send_email"}])]
        /\ UNCHANGED <<userBackend, twoFaBackend, bannedBackend, users, codes, banned, jar,
                       now, nextId, issued, attempts, loggedOut, signupPassword, seq, resp>>

\* ---- verify_2fa.rs ----
\* lines 14-23
verify_2fa_start(p, email, id, code) ==
    LET r == [NoResp EXCEPT !.op = "verify_2fa", !.email = email, !.id = id, !.code = code]
    IN  /\ Accept(p)
        /\ tasks' = [tasks EXCEPT ![p] =
              IF ~Email_parse(email) \/ ~LoginAttemptId_parse(id).ok
                 \/ ~TwoFACode_parse(code).ok
              THEN Return(NewTask(p), IntoResponse(r, "InvalidCredentials"))
              ELSE [NewTask(p) EXCEPT !.pc = "verify_2fa_lock", !.r = r]]
        /\ UNCHANGED <<userBackend, twoFaBackend, bannedBackend, users, codes, banned, jar,
                       now, nextId, issued, attempts, loggedOut, signupPassword, resp>>

\* line 26: let mut two_fa_code_store = state.two_factor_code_store.write().await
verify_2fa_lock(p) ==
    /\ tasks[p].pc = "verify_2fa_lock"
    /\ CanLock(p, CODE_STORE, "write")
    /\ tasks' = [tasks EXCEPT ![p].pc = "verify_2fa_get_code",
                              ![p].held = @ \cup {<<CODE_STORE, "write">>}]
    /\ UNCHANGED <<userBackend, twoFaBackend, bannedBackend, users, codes, banned, jar,
                   now, nextId, issued, attempts, loggedOut, signupPassword, seq, resp>>

\* lines 30-44: get_code, the comparison and the cookie
verify_2fa_get_code(p) ==
    LET t == tasks[p]
        code_tuple == TwoFACodeStore_get_code(twoFaBackend, codes, t.r.email, now)
    IN  /\ t.pc = "verify_2fa_get_code"
        /\ tasks' = [tasks EXCEPT ![p] =
              IF code_tuple.res # "Ok"
              THEN Return(t, [IntoResponse(t.r, "IncorrectCredentials")
                                EXCEPT !.accessed = {"two_fa_code_store.get_code"},
                                       !.cause = code_tuple.res])
              ELSE IF ~code_tuple_matches(LoginAttemptId_parse(t.r.id).value,
                                          TwoFACode_parse(t.r.code).value, code_tuple)
              THEN Return(t, [IntoResponse(t.r, "IncorrectCredentials")
                                EXCEPT !.accessed = {"two_fa_code_store.get_code"},
                                       !.cause = "Mismatch"])
              ELSE [t EXCEPT !.pc = "verify_2fa_remove_code",
                             !.pair = [id |-> code_tuple.id, code |-> code_tuple.code]]]
        /\ UNCHANGED <<userBackend, twoFaBackend, bannedBackend, users, codes, banned, jar,
                       now, nextId, issued, attempts, loggedOut, signupPassword, seq, resp>>

\* lines 46-49: remove_code, then 200 with the cookie
verify_2fa_remove_code(p) ==
    LET t == tasks[p]
        token == generate_auth_token(t.r.email, now)
        removed == TwoFACodeStore_remove_code(twoFaBackend, codes, t.r.email)
    IN  /\ t.pc = "verify_2fa_remove_code"
        /\ codes' = removed.store
        /\ issued' = issued \cup {token}
        /\ tasks' = [tasks EXCEPT ![p] =
              Return(t, [t.r EXCEPT !.status = 200, !.setJwt = token,
                                    !.accessed = {"two_fa_code_store.get_code",
                                                  "two_fa_code_store.remove_code"}])]
        /\ UNCHANGED <<userBackend, twoFaBackend, bannedBackend, users, banned, jar,
                       now, nextId, attempts, loggedOut, signupPassword, seq, resp>>

\* ---- logout.rs, verify_token.rs, validate_token ----
\* logout.rs lines 15-20
logout_start(p, token) ==
    LET r == [NoResp EXCEPT !.op = "logout", !.token = token]
    IN  /\ Accept(p)
        /\ tasks' = [tasks EXCEPT ![p] =
              IF token = NoCookie
              THEN Return(NewTask(p), IntoResponse(r, "MissingToken"))
              ELSE [NewTask(p) EXCEPT !.pc = "validate_token_lock", !.r = r]]
        /\ UNCHANGED <<userBackend, twoFaBackend, bannedBackend, users, codes, banned, jar,
                       now, nextId, issued, attempts, loggedOut, signupPassword, resp>>

verify_token_start(p, token) ==
    LET r == [NoResp EXCEPT !.op = "verify_token", !.token = token, !.at = now]
    IN  /\ Accept(p)
        /\ tasks' = [tasks EXCEPT ![p] =
                        [NewTask(p) EXCEPT !.pc = "validate_token_lock", !.r = r]]
        /\ UNCHANGED <<userBackend, twoFaBackend, bannedBackend, users, codes, banned, jar,
                       now, nextId, issued, attempts, loggedOut, signupPassword, resp>>

\* auth.rs line 77: banned_token_store.read().await
validate_token_lock(p) ==
    /\ tasks[p].pc = "validate_token_lock"
    /\ CanLock(p, BANNED_STORE, "read")
    /\ tasks' = [tasks EXCEPT ![p].pc = "validate_token_contains",
                              ![p].held = @ \cup {<<BANNED_STORE, "read">>}]
    /\ UNCHANGED <<userBackend, twoFaBackend, bannedBackend, users, codes, banned, jar,
                   now, nextId, issued, attempts, loggedOut, signupPassword, seq, resp>>

\* auth.rs lines 77-92: contains_token (the read guard is a temporary of the
\* match), then decode; verify_token.rs 13-15 and logout.rs 25-27
validate_token_contains(p) ==
    LET t == tasks[p]
        claims == validate_token(t.r.token, bannedBackend, banned, now, IO_OK)
        rejected == [IntoResponse(t.r, "InvalidToken")
                       EXCEPT !.accessed = {"banned_token_store.contains_token"},
                              !.cause = claims.res]
    IN  /\ t.pc = "validate_token_contains"
        /\ tasks' = [tasks EXCEPT ![p] =
              IF claims.res # "Ok" THEN Return(t, rejected)
              ELSE IF t.r.op = "verify_token"
              THEN Return(t, [t.r EXCEPT !.status = 200,
                                         !.body = [text |-> "Token verified successfully!"],
                                         !.accessed = {"banned_token_store.contains_token"}])
              ELSE [t EXCEPT !.pc = "logout_lock",
                             !.held = @ \ {<<BANNED_STORE, "read">>}]]
        /\ UNCHANGED <<userBackend, twoFaBackend, bannedBackend, users, codes, banned, jar,
                       now, nextId, issued, attempts, loggedOut, signupPassword, seq, resp>>

\* logout.rs lines 29-31: state.banned_token_store.write().await
logout_lock(p) ==
    /\ tasks[p].pc = "logout_lock"
    /\ CanLock(p, BANNED_STORE, "write")
    /\ tasks' = [tasks EXCEPT ![p].pc = "logout_add_token",
                              ![p].held = @ \cup {<<BANNED_STORE, "write">>}]
    /\ UNCHANGED <<userBackend, twoFaBackend, bannedBackend, users, codes, banned, jar,
                   now, nextId, issued, attempts, loggedOut, signupPassword, seq, resp>>

\* logout.rs lines 32-39: add_token, the cookie is removed, 200
logout_add_token(p) ==
    LET t == tasks[p]
    IN  /\ t.pc = "logout_add_token"
        /\ banned' = BannedTokenStore_add_token(bannedBackend, banned, t.r.token, now)
        /\ loggedOut' = loggedOut \cup {t.r.token}
        /\ tasks' = [tasks EXCEPT ![p] =
              Return(t, [t.r EXCEPT !.status = 200, !.removedJwt = TRUE,
                                    !.accessed = {"banned_token_store.contains_token",
                                                  "banned_token_store.add_token"}])]
        /\ UNCHANGED <<userBackend, twoFaBackend, bannedBackend, users, codes, jar,
                       now, nextId, issued, attempts, signupPassword, seq, resp>>

\* Requests of the concurrent clients
ConcCredentials == {<<EMAIL_A, PW_1>>, <<EMAIL_A, PW_2>>}
ConcVerify2FAInputs ==
    {<<EMAIL_A, id, code>> : id \in {LoginAttemptId_default(k) : k \in 1..(nextId - 1)},
                             code \in {DecimalString(n) : n \in GenNumbers}}
ConcTokens == issued \cup {NoCookie, INVALID_TOKEN}

ConcNext ==
    \/ \E p \in Procs, c \in ConcCredentials, f \in BOOLEAN : signup_start(p, c[1], c[2], f)
    \/ \E p \in Procs : signup_lock(p)
    \/ \E p \in Procs : signup_get_user(p)
    \/ \E p \in Procs, salt \in Salts : signup_add_user(p, salt)
    \/ \E p \in Procs, c \in ConcCredentials : login_start(p, c[1], c[2])
    \/ \E p \in Procs : login_lock(p)
    \/ \E p \in Procs : login_validate_user(p)
    \/ \E p \in Procs, number \in GenNumbers : login_get_user(p, number)
    \/ \E p \in Procs : handle_2fa_lock(p)
    \/ \E p \in Procs : handle_2fa_add_code(p)
    \/ \E p \in Procs : handle_2fa_lock_email(p)
    \/ \E p \in Procs : handle_2fa_send_email(p)
    \/ \E p \in Procs, v \in ConcVerify2FAInputs : verify_2fa_start(p, v[1], v[2], v[3])
    \/ \E p \in Procs : verify_2fa_lock(p)
    \/ \E p \in Procs : verify_2fa_get_code(p)
    \/ \E p \in Procs : verify_2fa_remove_code(p)
    \/ \E p \in Procs, token \in ConcTokens : logout_start(p, token)
    \/ \E p \in Procs, token \in ConcTokens \ {NoCookie} : verify_token_start(p, token)
    \/ \E p \in Procs : validate_token_lock(p)
    \/ \E p \in Procs : validate_token_contains(p)
    \/ \E p \in Procs : logout_lock(p)
    \/ \E p \in Procs : logout_add_token(p)

ConcSpec == Init /\ [][ConcNext]_vars

\* the lock a task at a position of a handler awaits, or the lock of the store
\* (or of the email client) whose operation it awaits
AwaitTarget(pc) ==
    CASE pc \in {"signup_lock", "signup_get_user", "signup_add_user",
                 "login_lock", "login_validate_user", "login_get_user"} -> USER_STORE
      [] pc \in {"handle_2fa_lock", "handle_2fa_add_code",
                 "verify_2fa_lock", "verify_2fa_get_code", "verify_2fa_remove_code"}
            -> CODE_STORE
      [] pc \in {"handle_2fa_lock_email", "handle_2fa_send_email"} -> EMAIL_CLIENT
      [] pc \in {"validate_token_lock", "validate_token_contains",
                 "logout_lock", "logout_add_token"} -> BANNED_STORE

\* C30 (as stated): a handler holds the lock of a store only for the operation
\* it invokes on that store: no task holds a read or write guard of one store
\* while it awaits the lock or an operation of another store or the email
\* dispatch.
C30_LockOnlyForOwnOperation ==
    \A p \in Procs :
        tasks[p].pc \notin {"idle", "done"}
           => \A h \in tasks[p].held : h[1] = AwaitTarget(tasks[p].pc)


(***************************************************************************)
(* Concurrent requests.                                                    *)
(***************************************************************************)
\* the requests of p and q were in flight at the same time
Overlap(p, q) == tasks[q].n \in tasks[p].with \/ tasks[p].n \in tasks[q].with

\* p and q have both answered overlapping requests of the operation op
BothDone(p, q, op) ==
    /\ p # q
    /\ tasks[p].pc = "done" /\ tasks[q].pc = "done"
    /\ tasks[p].r.op = op /\ tasks[q].r.op = op
    /\ Overlap(p, q)

\* p and q have both answered overlapping signups with valid input for one
\* identity that had no account when either was accepted
ConcurrentSignups(p, q) ==
    /\ BothDone(p, q, "signup")
    /\ tasks[p].r.email = tasks[q].r.email
    /\ tasks[p].r.status # 400 /\ tasks[q].r.status # 400
    /\ tasks[p].r.email \notin tasks[p].registered \cup tasks[q].registered

\* C31 (as stated): of two concurrent signups for the same identity that is
\* not yet registered, exactly one returns 201 and creates the account, the
\* other returns 409 (UserAlreadyExists), and the stored record is the one
\* the winner submitted.
C31_OneSignupWins ==
    \A p, q \in Procs :
        ConcurrentSignups(p, q) /\ tasks[p].r.status >= tasks[q].r.status
           => /\ tasks[q].r.status = 201
              /\ tasks[p].r.status = 409 /\ tasks[p].r.error = "UserAlreadyExists"
              /\ users[tasks[q].r.email] # NoUser
              /\ users[tasks[q].r.email].requires_2fa = tasks[q].user.requires_2fa
              /\ signupPassword[tasks[q].r.email] = tasks[q].r.password


\* p and q have both answered 206 to overlapping logins for one identity
ConcurrentLogins(p, q) ==
    /\ BothDone(p, q, "login")
    /\ tasks[p].r.email = tasks[q].r.email
    /\ tasks[p].r.status = 206 /\ tasks[q].r.status = 206

\* what verify_2fa decides for a submitted id and code against the entry
\* get_code returns (verify_2fa.rs lines 16-40)
Verify2FAAccepts(id, code, code_tuple) ==
    /\ LoginAttemptId_parse(id).ok /\ TwoFACode_parse(code).ok
    /\ code_tuple.res = "Ok"
    /\ code_tuple_matches(LoginAttemptId_parse(id).value, TwoFACode_parse(code).value,
                          code_tuple)

\* C32: when two concurrent logins for one second-factor identity have both
\* finished, the code store holds one pending entry for the identity, the
\* (attempt id, code) of the login whose add_code ran last; both parts of the
\* entry are those of one of the two logins; and verify-2fa accepts a
\* submission exactly when it carries that pair.
C32_LastAddCodeWins ==
    \A p, q \in Procs :
        ConcurrentLogins(p, q)
           => LET e == tasks[p].r.email
                  last == attempts[e][Len(attempts[e])]
                  code_tuple == TwoFACodeStore_get_code(twoFaBackend, codes, e, now)
              IN  /\ code_tuple.res = "Ok"
                  /\ code_tuple.id = last.id /\ code_tuple.code = last.code
                  /\ \E w \in {p, q} : /\ tasks[w].pair.id = code_tuple.id
                                       /\ tasks[w].pair.code = code_tuple.code
                  /\ \A id \in IdInputs, code \in CodeInputs \cup {SIGNED_CODE} :
                        Verify2FAAccepts(id, code, code_tuple)
                           <=> (LoginAttemptId_parse(id).value = last.id /\ code = last.code)

\* two overlapping logins with different codes have finished, and the entry
\* is that of the login that was accepted first: its add_code ran last
C32_Witness ==
    \E p, q \in Procs :
        /\ ConcurrentLogins(p, q)
        /\ tasks[p].n < tasks[q].n
        /\ tasks[p].pair.code # tasks[q].pair.code
        /\ codes[tasks[p].r.email] # NoCode
        /\ codes[tasks[p].r.email].id = tasks[p].pair.id
        /\ codes[tasks[p].r.email].code = tasks[p].pair.code


\* C33: an account record is never changed or removed once it exists: no
\* step of login, verify-2fa, logout, verify-token or of a signup (accepted for
\* another identity, or rejected) changes the stored password material or the
\* second-factor flag of an identity that has an account.
C33_AccountRecordImmutable ==
    [][\A e \in ValidEmails : users[e] # NoUser => users'[e] = users[e]]_vars

\* an account was created by signup, and a later signup for the same identity
\* with another password has been rejected with 409
C33_Witness ==
    /\ userBackend = "hashmap"
    /\ resp.op = "signup" /\ resp.status = 409
    /\ users[resp.email] # NoUser
    /\ users[resp.email].password = signupPassword[resp.email]
    /\ resp.password # signupPassword[resp.email]


\* C34 (as stated): the conversion of a credential-store error into the
\* outward error maps UserNotFound and InvalidCredentials (wrong password) to
\* the same outward error, IncorrectCredentials; UserAlreadyExists to
\* UserAlreadyExists; UnexpectedError to UnexpectedError.
C34_StoreErrorConversion ==
    (resp.op = "AuthAPIError::from" /\ resp.cause # "pending")
        => resp.error =
              CASE resp.body.store_error \in {"UserNotFound", "InvalidCredentials"}
                      -> "IncorrectCredentials"
                [] resp.body.store_error = "UserAlreadyExists" -> "UserAlreadyExists"
                [] resp.body.store_error = "UnexpectedError" -> "UnexpectedError"


\* C35: a session token is issued only to an identity whose password was
\* validated in the same flow.  A login that sets the cookie is for an account
\* without the second-factor flag and carries the account's password; a
\* verify-2fa that sets the cookie carries the (attempt id, code) pending for
\* the identity, a pair that a login with the validated password stored; the
\* token's subject is the identity of the request, and a token for an account
\* with the second-factor flag comes from verify-2fa only.
C35_TokenOnlyAfterAuthentication ==
    [][(Handled /\ resp'.setJwt # NoCookie)
          => LET e == resp'.email
             IN  /\ resp'.op \in {"login", "verify_2fa"}
                 /\ Email_parse(e) /\ users[e] # NoUser
                 /\ resp'.setJwt.sub = e
                 /\ resp'.setJwt \in issued'
                 /\ users[e].requires_2fa => resp'.op = "verify_2fa"
                 /\ resp'.op = "login"
                       => (~users[e].requires_2fa /\ resp'.password = signupPassword[e])
                 /\ resp'.op = "verify_2fa"
                       => /\ users[e].requires_2fa
                          /\ Pending(e)
                          /\ LoginAttemptId_parse(resp'.id).value = codes[e].id
                          /\ resp'.code = codes[e].code
                          /\ \E k \in 1..Len(attempts[e]) :
                                /\ attempts[e][k].id = codes[e].id
                                /\ attempts[e][k].code = codes[e].code]_vars

\* verify-2fa has issued the session token of a second-factor account
C35_Witness ==
    /\ resp.op = "verify_2fa" /\ resp.status = 200 /\ resp.setJwt # NoCookie
    /\ users[resp.email] # NoUser /\ users[resp.email].requires_2fa
    /\ resp.setJwt.sub = resp.email /\ resp.setJwt \in issued


\* p and q have both answered overlapping verify-2fa requests that carry the
\* same, well-formed (identity, attempt id, code)
ConcurrentVerifies(p, q) ==
    /\ BothDone(p, q, "verify_2fa")
    /\ tasks[p].r.email = tasks[q].r.email
    /\ tasks[p].r.id = tasks[q].r.id
    /\ tasks[p].r.code = tasks[q].r.code
    /\ tasks[p].r.status # 400

\* C36: of two concurrent verify-2fa requests with the same (identity, attempt
\* id, code), at most one returns 200 with a session cookie; when one has, the
\* other is rejected with IncorrectCredentials (401) and gets no cookie.
C36_OneVerifySucceeds ==
    \A p, q \in Procs :
        (ConcurrentVerifies(p, q) /\ tasks[p].r.status = 200)
           => /\ tasks[q].r.status = 401 /\ tasks[q].r.error = "IncorrectCredentials"
              /\ tasks[q].r.setJwt = NoCookie

\* two overlapping submissions of the pending pair have been answered, one
\* with the cookie and the other, which found no entry any more, with 401
C36_Witness ==
    \E p, q \in Procs :
        /\ ConcurrentVerifies(p, q)
        /\ tasks[p].r.status = 200 /\ tasks[p].r.setJwt # NoCookie
        /\ tasks[q].r.status = 401 /\ tasks[q].r.cause = "LoginAttemptIdNotFound"
        /\ codes[tasks[p].r.email] = NoCode


\* the request carries the attempt id and the code pending for identity a
CarriesPendingPairOf(r, a) ==
    /\ Pending(a)
    /\ LoginAttemptId_parse(r.id).ok
    /\ LoginAttemptId_parse(r.id).value = codes[a].id
    /\ r.code = codes[a].code

\* C37: a verify-2fa submission for one identity that carries the attempt id
\* and the code pending for another identity is rejected with
\* IncorrectCredentials (401), issues no token and leaves the other
\* identity's pending entry unchanged.
C37_PairBoundToIdentity ==
    [][\A a \in ValidEmails :
          (/\ Handled /\ resp'.op = "verify_2fa"
           /\ Email_parse(resp'.email) /\ resp'.email # a
           /\ CarriesPendingPairOf(resp', a))
             => /\ resp'.status = 401 /\ resp'.error = "IncorrectCredentials"
                /\ resp'.setJwt = NoCookie
                /\ issued' = issued /\ jar' = jar
                /\ codes'[a] = codes[a]]_vars

\* the pair pending for one identity was submitted for another and refused;
\* the pair is still pending
C37_Witness ==
    \E a \in ValidEmails :
        /\ resp.op = "verify_2fa" /\ resp.status = 401
        /\ Email_parse(resp.email) /\ resp.email # a
        /\ CarriesPendingPairOf(resp, a)
        /\ \A token \in issued : token.sub # resp.email


MaxLiveRequests == 3

LiveNext ==
    \/ \E p \in Procs, f \in BOOLEAN :
          seq < MaxLiveRequests /\ signup_start(p, EMAIL_A, PW_1, f)
    \/ \E p \in Procs : signup_lock(p)
    \/ \E p \in Procs : signup_get_user(p)
    \/ \E p \in Procs, salt \in Salts : signup_add_user(p, salt)
    \/ \E p \in Procs : seq < MaxLiveRequests /\ login_start(p, EMAIL_A, PW_1)
    \/ \E p \in Procs : login_lock(p)
    \/ \E p \in Procs : login_validate_user(p)
    \/ \E p \in Procs, number \in {TWO_FA_CODE_MIN} : login_get_user(p, number)
    \/ \E p \in Procs : handle_2fa_lock(p)
    \/ \E p \in Procs : handle_2fa_add_code(p)
    \/ \E p \in Procs : handle_2fa_lock_email(p)
    \/ \E p \in Procs : handle_2fa_send_email(p)
    \/ \E p \in Procs, k \in 1..(nextId - 1) :
          /\ seq < MaxLiveRequests
          /\ verify_2fa_start(p, EMAIL_A, LoginAttemptId_default(k),
                              DecimalString(TWO_FA_CODE_MIN))
    \/ \E p \in Procs : verify_2fa_lock(p)
    \/ \E p \in Procs : verify_2fa_get_code(p)
    \/ \E p \in Procs : verify_2fa_remove_code(p)
    \/ \E p \in Procs, token \in issued :
          seq < MaxLiveRequests /\ logout_start(p, token)
    \/ \E p \in Procs, token \in issued \cup {INVALID_TOKEN} :
          seq < MaxLiveRequests /\ verify_token_start(p, token)
    \/ \E p \in Procs : validate_token_lock(p)
    \/ \E p \in Procs : validate_token_contains(p)
    \/ \E p \in Procs : logout_lock(p)
    \/ \E p \in Procs : logout_add_token(p)

\* a step of the task p other than taking up a request
LiveStep(p) ==
    \/ signup_lock(p) \/ signup_get_user(p)
    \/ \E salt \in Salts : signup_add_user(p, salt)
    \/ login_lock(p) \/ login_validate_user(p)
    \/ \E number \in {TWO_FA_CODE_MIN} : login_get_user(p, number)
    \/ handle_2fa_lock(p) \/ handle_2fa_add_code(p)
    \/ handle_2fa_lock_email(p) \/ handle_2fa_send_email(p)
    \/ verify_2fa_lock(p) \/ verify_2fa_get_code(p) \/ verify_2fa_remove_code(p)
    \/ validate_token_lock(p) \/ validate_token_contains(p)
    \/ logout_lock(p) \/ logout_add_token(p)

\* The runtime polls every task that can run, store and email operations
\* return, and a task that waits for a lock gets it once the lock stays free
\* (the RwLock of tokio queues its waiters and wakes them in turn).
LiveFairness ==
    \A p \in Procs : WF_vars(LiveStep(p))

LiveSpec == Init /\ [][LiveNext]_vars /\ LiveFairness

\* C39: requests never wait on each other's store locks forever: provided
\* store and email operations return, every request that is in flight
\* eventually returns its response and holds no lock any more.
C39_EveryRequestCompletes ==
    \A p \in Procs : InFlight(p) ~> (tasks[p].pc = "done" /\ tasks[p].held = {})

\* a login that holds the read guard of the user store waits for the code
\* store while a verify-2fa holds the code store's write guard
C39_Witness ==
    \E p, q \in Procs :
        /\ tasks[p].pc = "handle_2fa_lock"
        /\ <<USER_STORE, "read">> \in tasks[p].held
        /\ tasks[q].r.op = "verify_2fa"
        /\ <<CODE_STORE, "write">> \in tasks[q].held
        /\ ~CanLock(p, CODE_STORE, "write")


\* the submission carries the pair get_code returns for its identity
MatchesStoredPair(r) ==
    /\ Email_parse(r.email) /\ LoginAttemptId_parse(r.id).ok /\ TwoFACode_parse(r.code).ok
    /\ r.io # "two_fa_code_store.get_code"
    /\ Verify2FAAccepts(r.id, r.code,
                        TwoFACodeStore_get_code(twoFaBackend, codes, r.email, now))

\* C40: verify-2fa returns 200 with a session cookie only when the matched
\* entry has been removed.  When token generation fails the entry stays and
\* the response is UnexpectedError; when the removal fails the response is
\* UnexpectedError and carries no session cookie.
C40_CookieOnlyAfterRemoval ==
    [][(Handled /\ resp'.op = "verify_2fa")
          => LET matched == MatchesStoredPair(resp')
             IN  /\ (resp'.status = 200 \/ resp'.setJwt # NoCookie)
                       => /\ matched
                          /\ codes'[resp'.email] = NoCode
                          /\ "two_fa_code_store.remove_code" \in resp'.accessed
                 /\ (resp'.io = "generate_auth_cookie" /\ matched)
                       => /\ resp'.status = 500 /\ resp'.error = "UnexpectedError"
                          /\ resp'.setJwt = NoCookie
                          /\ codes' = codes /\ jar' = jar /\ issued' = issued
                 /\ (resp'.io = "two_fa_code_store.remove_code" /\ matched)
                       => /\ resp'.status = 500 /\ resp'.error = "UnexpectedError"
                          /\ resp'.setJwt = NoCookie
                          /\ jar' = jar /\ issued' = issued]_vars

\* the pending pair was submitted and the removal failed: 500, no cookie, no
\* token issued for the identity
C40_Witness ==
    /\ resp.op = "verify_2fa" /\ resp.io = "two_fa_code_store.remove_code"
    /\ resp.status = 500 /\ resp.setJwt = NoCookie
    /\ "two_fa_code_store.remove_code" \in resp.accessed
    /\ CarriesPendingPairOf(resp, resp.email)
    /\ \A token \in issued : token.sub # resp.email

====
